---- MODULE Spec2Model ----
(***************************************************************************)
(* A model of the simulated exchange: the Balance value type and its       *)
(* BalanceDelta, the ExchangeBuilder, and the SimulatedExchange run loop   *)
(* with the client and market-data producers that feed its request         *)
(* channel.  f64 amounts are modelled by integers (finite values whose     *)
(* sums are exact); wall-clock reads (Utc::now) are a nondeterministic     *)
(* choice of a time.                                                       *)
(***************************************************************************)
EXTENDS Integers, Sequences, FiniteSets, TLC

VARIABLES
    balance,    \* a Balance value (common/balance.rs)
    applyLog,   \* the apply calls made on `balance` and their results
    builder,    \* the ExchangeBuilder in hand: {} once build() has consumed it
    built,      \* what the latest build() was called on and what it returned
    exchange,   \* the SimulatedExchange of each run, see SimulatedExchangeNew
    arrived,    \* every event sent on the request channel, in sending order
    senders,    \* TRUE while a sender of the request channel is alive
    account_positions,  \* an AccountPositions value: its ten maps
    posLog,     \* the latest call made on account_positions and its result
    reserve,    \* an open request, the account it met and what came of it
    order_ids,  \* the order id generator and the ids it has assigned
    replay,     \* a replay of the trade store: the reader, the channel, the consumer
    locks       \* the RwLocks of the position maps and the threads that take them

balVars == <<balance, applyLog>>
bldVars == <<builder, built>>
exVars == <<exchange, arrived, senders>>
posVars == <<account_positions, posLog>>
resVars == <<reserve>>
idVars == <<order_ids>>
rpVars == <<replay>>
lkVars == <<locks>>
vars == <<balance, applyLog, builder, built, exchange, arrived, senders,
          account_positions, posLog, reserve, order_ids, replay, locks>>

\* ------------------------------------------------------------------ bounds
\* Largest amount a Balance field may reach in the model.
MaxAmount == 3
\* Largest absolute value of a BalanceDelta field.
MaxDelta == 2
\* Largest wall-clock reading.
MaxClock == 1

Amounts == 0..MaxAmount
Deltas == (0 - MaxDelta)..MaxDelta
Times == 0..MaxClock

\* ----------------------------------------------------------------- Balance
\* Balance::new; `now` is the value Utc::now() returns.
BalanceNew(total, available, now) ==
    [time |-> now, total |-> total, available |-> available]

\* Balance::used
BalanceUsed(b) == b.total - b.available

\* BalanceDelta::new
BalanceDeltaNew(total, available) == [total |-> total, available |-> available]

\* The delta with both fields negated, BalanceDelta::new(-d.total, -d.available).
BalanceDeltaNegated(d) == BalanceDeltaNew(0 - d.total, 0 - d.available)

\* Balance::apply with only the total checked before the update.
BalanceApplyTotalOnly(b, delta, now) ==
    IF b.total + delta.total < 0
    THEN [result |-> "Err", balance |-> b]
    ELSE [result |-> "Ok",
          balance |-> [time |-> now,
                       total |-> b.total + delta.total,
                       available |-> b.available + delta.available]]

\* Balance::apply with the total updated before the available is checked.
BalanceApplyPartial(b, delta, now) ==
    IF b.total + delta.total < 0
    THEN [result |-> "Err", balance |-> b]
    ELSE IF b.available + delta.available < 0
         THEN [result |-> "Err",
               balance |-> [b EXCEPT !.total = b.total + delta.total]]
         ELSE [result |-> "Ok",
               balance |-> [time |-> now,
                            total |-> b.total + delta.total,
                            available |-> b.available + delta.available]]

\* Balance::apply with `<= 0.0` in place of `< 0.0`.
BalanceApplyStrict(b, delta, now) ==
    IF b.total + delta.total <= 0 \/ b.available + delta.available <= 0
    THEN [result |-> "Err", balance |-> b]
    ELSE [result |-> "Ok",
          balance |-> [time |-> now,
                       total |-> b.total + delta.total,
                       available |-> b.available + delta.available]]

\* Balance::apply: the Result and the Balance it leaves behind.
BalanceApply(b, delta, now) ==
    IF b.total + delta.total < 0 \/ b.available + delta.available < 0
    THEN [result |-> "Err", balance |-> b]
    ELSE [result |-> "Ok",
          balance |-> [time |-> now,
                       total |-> b.total + delta.total,
                       available |-> b.available + delta.available]]

\* --------------------------------------------------------- ExchangeBuilder
\* An Option<T> is the set of its values: {} is None, {v} is Some(v).
None == {}
Some(v) == {v}

\* Largest id of a request channel handed to the builder.
MaxChannel == 2
\* Largest starting amount of a token in an account handed to the builder.
MaxStart == 3

\* The accounts a test may hand to the builder, told apart by the amounts
\* they start with (quote, base).
StartAccounts == {[quote |-> q, base |-> b] : q \in 0..MaxStart, b \in 0..MaxStart}

\* ExchangeBuilder::new: Default::default() leaves both fields None.
ExchangeBuilderNew == [event_simulated_rx |-> None, account |-> None]

\* ExchangeBuilder::event_simulated_rx
ExchangeBuilderEventSimulatedRx(b, value) == [b EXCEPT !.event_simulated_rx = Some(value)]

\* ExchangeBuilder::account
ExchangeBuilderAccount(b, value) == [b EXCEPT !.account = Some(value)]

ExecutionErrorBuilderIncomplete(field) == [kind |-> "BuilderIncomplete", field |-> field]
NoError == [kind |-> "None", field |-> ""]

TheOne(S) == CHOOSE v \in S : TRUE

\* ExchangeBuilder::build with the two fields unwrapped in the other order.
ExchangeBuilderBuildAccountFirst(b) ==
    IF b.account = None
    THEN [result |-> "Err", error |-> ExecutionErrorBuilderIncomplete("account"),
          exchange |-> None]
    ELSE IF b.event_simulated_rx = None
    THEN [result |-> "Err",
          error |-> ExecutionErrorBuilderIncomplete("event_simulated_rx"),
          exchange |-> None]
    ELSE [result |-> "Ok", error |-> NoError,
          exchange |-> Some([event_simulated_rx |-> TheOne(b.event_simulated_rx),
                             account |-> TheOne(b.account)])]

\* ExchangeBuilder::build: the fields are unwrapped in the order of the struct
\* literal, event_simulated_rx first; each `?` returns the error at once.
ExchangeBuilderBuild(b) ==
    IF b.event_simulated_rx = None
    THEN [result |-> "Err",
          error |-> ExecutionErrorBuilderIncomplete("event_simulated_rx"),
          exchange |-> None]
    ELSE IF b.account = None
    THEN [result |-> "Err", error |-> ExecutionErrorBuilderIncomplete("account"),
          exchange |-> None]
    ELSE [result |-> "Ok", error |-> NoError,
          exchange |-> Some([event_simulated_rx |-> TheOne(b.event_simulated_rx),
                             account |-> TheOne(b.account)])]

\* ------------------------------------------------------------------ orders
Tokens == {"BTC", "USDT"}
TokenList == <<"BTC", "USDT">>

\* The one instrument the account trades.
TestInstrument == [base |-> "BTC", quote |-> "USDT", kind |-> "Perpetual"]

Min(a, b) == IF a < b THEN a ELSE b
Front(s) == SubSeq(s, 1, Len(s) - 1)
Last(s) == s[Len(s)]

\* Order<RequestOpen>
OrderRequestOpen(cid, side, kind, price, size) ==
    [instrument |-> TestInstrument, cid |-> cid, side |-> side,
     state |-> [kind |-> kind, price |-> price, size |-> size]]

\* Order<RequestCancel>, from an OrderId
OrderRequestCancel(id) == [instrument |-> TestInstrument, state |-> [id |-> id]]

\* calculate_required_available_balance asking the notional in the quote
\* token for either side.
CalculateRequiredAvailableBalanceQuoteOnly(order) ==
    [token |-> order.instrument.quote,
     amount |-> order.state.price * order.state.size]

\* Order<RequestOpen>::calculate_required_available_balance
CalculateRequiredAvailableBalance(order) ==
    IF order.side = "Buy"
    THEN [token |-> order.instrument.quote,
          amount |-> order.state.price * order.state.size]
    ELSE [token |-> order.instrument.base, amount |-> order.state.size]

\* remaining_quantity that forgets what has been filled.
RemainingQuantityUnfilled(state) == state.size

\* Open::remaining_quantity
RemainingQuantity(state) == state.size - state.filled_quantity

\* From<(OrderId, Order<RequestOpen>)> for Order<Open>
OrderOpenFrom(id, request) ==
    [instrument |-> request.instrument, cid |-> request.cid, side |-> request.side,
     state |-> [id |-> id, kind |-> request.state.kind, price |-> request.state.price,
                size |-> request.state.size, filled_quantity |-> 0]]

\* From<Order<Open>> for Order<Cancelled>
OrderCancelledFrom(order) ==
    [instrument |-> order.instrument, cid |-> order.cid, side |-> order.side,
     state |-> [id |-> order.state.id]]

\* f64::partial_cmp on finite values
PartialCmp(x, y) == IF x < y THEN "Less" ELSE IF x > y THEN "Greater" ELSE "Equal"

\* A comparison that orders a bid and an ask by price.
OrderPartialCmpAcrossSides(a, b) ==
    IF a.side = b.side
    THEN IF PartialCmp(a.state.price, b.state.price) = "Equal"
         THEN PartialCmp(RemainingQuantity(a.state), RemainingQuantity(b.state))
         ELSE PartialCmp(a.state.price, b.state.price)
    ELSE PartialCmp(a.state.price, b.state.price)

\* A comparison that looks at the remaining quantity before the price.
OrderPartialCmpRemainingFirst(a, b) ==
    IF a.side = "Buy" /\ b.side = "Buy"
    THEN IF PartialCmp(RemainingQuantity(a.state), RemainingQuantity(b.state)) = "Equal"
         THEN PartialCmp(a.state.price, b.state.price)
         ELSE PartialCmp(RemainingQuantity(a.state), RemainingQuantity(b.state))
    ELSE IF a.side = "Sell" /\ b.side = "Sell"
    THEN IF PartialCmp(RemainingQuantity(b.state), RemainingQuantity(a.state)) = "Equal"
         THEN PartialCmp(b.state.price, a.state.price)
         ELSE PartialCmp(RemainingQuantity(b.state), RemainingQuantity(a.state))
    ELSE "None"

\* PartialOrd for Order<Open>: "None" when the sides differ.
OrderPartialCmp(a, b) ==
    IF a.side = "Buy" /\ b.side = "Buy"
    THEN IF PartialCmp(a.state.price, b.state.price) = "Equal"
         THEN PartialCmp(RemainingQuantity(a.state), RemainingQuantity(b.state))
         ELSE PartialCmp(a.state.price, b.state.price)
    ELSE IF a.side = "Sell" /\ b.side = "Sell"
    THEN IF PartialCmp(b.state.price, a.state.price) = "Equal"
         THEN PartialCmp(RemainingQuantity(b.state), RemainingQuantity(a.state))
         ELSE PartialCmp(b.state.price, a.state.price)
    ELSE "None"

\* Ord for Order<Open>: cmp unwraps partial_cmp and panics on None.
OrderCmp(a, b) ==
    IF OrderPartialCmp(a, b) = "None" THEN "Panic" ELSE OrderPartialCmp(a, b)

\* ----------------------------------------------------------------- account
\* The account the exchange owns: balances per token, the open orders of the
\* instrument (each side sorted by Ord for Order<Open>, the best order last),
\* the counter behind the order ids, and the size held long and short.
AccountNew(start, now) ==
    [balances |-> [t \in Tokens |->
                     IF t = TestInstrument.quote
                     THEN BalanceNew(start.quote, start.quote, now)
                     ELSE BalanceNew(start.base, start.base, now)],
     orders |-> [bids |-> <<>>, asks |-> <<>>],
     order_counter |-> 0,
     positions |-> [long |-> 0, short |-> 0]]

TokenBalanceNew(token, b) == [token |-> token, balance |-> b]

\* AccountEvent kinds pushed to the event channel.
EventOrder(kind, order) == [kind |-> kind, order |-> order]
EventFill(kind, id, price, size) ==
    [kind |-> kind, state |-> [id |-> id, price |-> price, size |-> size]]
EventBalance(token, b) == [kind |-> "Balance", token |-> token, balance |-> b]

\* Result<T, ExecutionError> inside a reply.
Ok(order) == [ok |-> TRUE, order |-> order]
Err(error) == [ok |-> FALSE, error |-> error]

\* The balance of `token` after `delta`, the apply result being ignored.
Applied(acct, token, delta, now) ==
    [acct.balances EXCEPT ![token] = BalanceApply(@, delta, now).balance]

\* push then sort(): the new order goes after the orders that do not rank
\* above it (the sort is stable).
InsertOrder(book, new) ==
    LET n == Cardinality({i \in 1..Len(book) :
                            OrderPartialCmp(book[i], new) /= "Greater"}) IN
    SubSeq(book, 1, n) \o <<new>> \o SubSeq(book, n + 1, Len(book))

AddOrderOpen(orders, new) ==
    IF new.side = "Buy"
    THEN [orders EXCEPT !.bids = InsertOrder(@, new)]
    ELSE [orders EXCEPT !.asks = InsertOrder(@, new)]

\* A removal by id that leaves the book as it is.
WithoutIdKeepsAll(book, id) == book

WithoutId(book, id) == SelectSeq(book, LAMBDA o : o.state.id /= id)

AllOrders(orders) == orders.bids \o orders.asks

\* One request of an open_orders batch: reserve, then rest the order.
TryOpenOrder(acct, request, now) ==
    LET need == CalculateRequiredAvailableBalance(request)
        r == BalanceApply(acct.balances[need.token],
                          BalanceDeltaNew(0, 0 - need.amount), now)
        id == acct.order_counter + 1
        open == OrderOpenFrom(id, request) IN
    IF r.result = "Err"
    THEN [account |-> acct, result |-> Err("InsufficientBalance"), events |-> <<>>]
    ELSE [account |-> [acct EXCEPT !.balances[need.token] = r.balance,
                                   !.orders = AddOrderOpen(@, open),
                                   !.order_counter = id],
          result |-> Ok(open),
          events |-> <<EventOrder("OrdersNew", open),
                       EventBalance(need.token, r.balance)>>]

\* The amount an open order still holds back from `available`.
Reserved(order) ==
    IF order.side = "Buy"
    THEN [token |-> order.instrument.quote,
          amount |-> order.state.price * RemainingQuantity(order.state)]
    ELSE [token |-> order.instrument.base,
          amount |-> RemainingQuantity(order.state)]

\* Cancel one open order: take it out of the book, release its reservation.
CancelOpenOrder(acct, order, now) ==
    LET back == Reserved(order)
        balances == Applied(acct, back.token, BalanceDeltaNew(0, back.amount), now)
        cancelled == OrderCancelledFrom(order) IN
    [account |-> [acct EXCEPT !.balances = balances,
                              !.orders.bids = WithoutId(@, order.state.id),
                              !.orders.asks = WithoutId(@, order.state.id)],
     result |-> Ok(cancelled),
     events |-> <<EventOrder("OrdersCancelled", cancelled),
                  EventBalance(back.token, balances[back.token])>>]

\* One request of a cancel_orders batch.
TryCancelOrder(acct, request, now) ==
    LET found == SelectSeq(AllOrders(acct.orders),
                           LAMBDA o : o.state.id = request.state.id) IN
    IF found = <<>>
    THEN [account |-> acct, result |-> Err("OrderNotFound"), events |-> <<>>]
    ELSE CancelOpenOrder(acct, found[1], now)

RECURSIVE ProcessOpens(_, _, _)
ProcessOpens(acct, requests, now) ==
    IF requests = <<>>
    THEN [account |-> acct, results |-> <<>>, events |-> <<>>]
    ELSE LET first == TryOpenOrder(acct, Head(requests), now)
             rest == ProcessOpens(first.account, Tail(requests), now) IN
         [account |-> rest.account,
          results |-> <<first.result>> \o rest.results,
          events |-> first.events \o rest.events]

RECURSIVE ProcessCancels(_, _, _)
ProcessCancels(acct, requests, now) ==
    IF requests = <<>>
    THEN [account |-> acct, results |-> <<>>, events |-> <<>>]
    ELSE LET first == TryCancelOrder(acct, Head(requests), now)
             rest == ProcessCancels(first.account, Tail(requests), now) IN
         [account |-> rest.account,
          results |-> <<first.result>> \o rest.results,
          events |-> first.events \o rest.events]

\* The position ledger in NetMode: a fill on `side` of quantity q first
\* closes what is held on the other side, the residual opens the new side.
PositionsAfterFill(positions, side, q) ==
    LET mine == IF side = "Buy" THEN positions.long ELSE positions.short
        other == IF side = "Buy" THEN positions.short ELSE positions.long
        closed == Min(other, q)
        opened == IF other > 0 THEN q - closed ELSE q IN
    IF side = "Buy"
    THEN [long |-> mine + opened, short |-> other - closed]
    ELSE [long |-> other - closed, short |-> mine + opened]

\* Settle a fill of q at the resting order's price: the reservation is
\* consumed from the total of the token the order reserved, the proceeds
\* are credited to the other token, the position ledger is updated.
SettleFill(acct, order, price, q, now) ==
    LET quote == order.instrument.quote
        base == order.instrument.base
        paid == IF order.side = "Buy"
                THEN Applied(acct, quote, BalanceDeltaNew(0 - price * q, 0), now)
                ELSE Applied(acct, base, BalanceDeltaNew(0 - q, 0), now)
        a1 == [acct EXCEPT !.balances = paid]
        got == IF order.side = "Buy"
               THEN Applied(a1, base, BalanceDeltaNew(q, q), now)
               ELSE Applied(a1, quote, BalanceDeltaNew(price * q, price * q), now) IN
    [acct EXCEPT !.balances = got,
                 !.positions = PositionsAfterFill(@, order.side, q)]

\* A trade taken to cross every resting order.
MarketableAlways(side, price, order) == TRUE

\* A public buy fills an ask priced at or below it, a public sell a bid
\* priced at or above it.
Marketable(side, price, order) ==
    IF side = "Buy" THEN price >= order.state.price ELSE price <= order.state.price

\* Walk the side of the book opposite to the trade, best order first.
RECURSIVE MatchBook(_, _, _, _, _)
MatchBook(acct, side, price, amount, now) ==
    LET book == IF side = "Buy" THEN acct.orders.asks ELSE acct.orders.bids IN
    IF amount = 0 \/ book = <<>>
    THEN [account |-> acct, events |-> <<>>]
    ELSE
    LET o == Last(book)
        crosses == Marketable(side, price, o)
        q == Min(RemainingQuantity(o.state), amount)
        filled == [o EXCEPT !.state.filled_quantity = @ + q]
        full == RemainingQuantity(filled.state) = 0
        after == IF full THEN Front(book) ELSE Front(book) \o <<filled>>
        settled == SettleFill(acct, o, o.state.price, q, now)
        a1 == IF side = "Buy" THEN [settled EXCEPT !.orders.asks = after]
                              ELSE [settled EXCEPT !.orders.bids = after]
        ev == <<EventFill(IF full THEN "OrdersFilled" ELSE "OrdersPartiallyFilled",
                          o.state.id, o.state.price, q),
                EventBalance(o.instrument.base, a1.balances[o.instrument.base]),
                EventBalance(o.instrument.quote, a1.balances[o.instrument.quote])>> IN
    IF ~crosses
    THEN [account |-> acct, events |-> <<>>]
    ELSE LET rest == MatchBook(a1, side, price, amount - q, now) IN
         [account |-> rest.account, events |-> ev \o rest.events]

\* What the orders of a book hold for a taker of `side` at `price`: the
\* remaining quantities of the orders the price crosses.
RECURSIVE FillableNow(_, _, _)
FillableNow(book, side, price) ==
    IF book = <<>>
    THEN 0
    ELSE (IF Marketable(side, price, Last(book))
          THEN RemainingQuantity(Last(book).state) ELSE 0)
         + FillableNow(Front(book), side, price)

\* The book side an order of `side` is matched against.
OppositeBook(acct, side) ==
    IF side = "Buy" THEN acct.orders.asks ELSE acct.orders.bids

\* A FillOrKill request matched as the incoming trade: the whole size, or
\* an error.
FillOrKill(acct, request, now) ==
    LET can == FillableNow(OppositeBook(acct, request.side), request.side,
                           request.state.price)
        m == MatchBook(acct, request.side, request.state.price, request.state.size, now)
        id == acct.order_counter + 1 IN
    IF can < request.state.size
    THEN [account |-> acct, result |-> Err("InvalidRequest"), events |-> <<>>]
    ELSE [account |-> [m.account EXCEPT !.order_counter = id],
          result |-> Ok([OrderOpenFrom(id, request) EXCEPT
                           !.state.filled_quantity = request.state.size]),
          events |-> m.events]

\* process_request_open taking from the book whatever a FillOrKill request
\* can get.
ProcessRequestOpenFillsWhatItCan(acct, request, now) ==
    IF request.state.kind = "FillOrKill"
    THEN LET m == MatchBook(acct, request.side, request.state.price,
                            request.state.size, now) IN
         [account |-> m.account,
          result |-> IF FillableNow(OppositeBook(acct, request.side), request.side,
                                    request.state.price) < request.state.size
                     THEN Err("InvalidRequest")
                     ELSE Ok(OrderOpenFrom(acct.order_counter + 1, request)),
          events |-> m.events]
    ELSE TryOpenOrder(acct, request, now)

\* process_request_open: a FillOrKill request fills at once or fails, any
\* other request reserves and rests.
ProcessRequestOpen(acct, request, now) ==
    IF request.state.kind = "FillOrKill"
    THEN FillOrKill(acct, request, now)
    ELSE TryOpenOrder(acct, request, now)

\* The handlers of the account: what each leaves in the account, the reply
\* it sends on the reply channel and the events it pushes.
NoReply == [kind |-> "None", result |-> "None", body |-> <<>>]

AccountFetchOrdersOpen(acct) ==
    [account |-> acct,
     reply |-> [kind |-> "OrdersOpen", result |-> "Ok", body |-> AllOrders(acct.orders)],
     events |-> <<>>]

AccountFetchBalances(acct) ==
    [account |-> acct,
     reply |-> [kind |-> "Balances", result |-> "Ok",
                body |-> [i \in DOMAIN TokenList |->
                            TokenBalanceNew(TokenList[i], acct.balances[TokenList[i]])]],
     events |-> <<>>]

\* open_orders answering only for the requests it accepted.
AccountOpenOrdersAcceptedOnly(acct, open_requests, now) ==
    LET p == ProcessOpens(acct, open_requests, now) IN
    [account |-> p.account,
     reply |-> [kind |-> "OpenOrders", result |-> "Ok",
                body |-> SelectSeq(p.results, LAMBDA r : r.ok)],
     events |-> p.events]

AccountOpenOrders(acct, open_requests, now) ==
    LET p == ProcessOpens(acct, open_requests, now) IN
    [account |-> p.account,
     reply |-> [kind |-> "OpenOrders", result |-> "Ok", body |-> p.results],
     events |-> p.events]

AccountCancelOrders(acct, cancel_requests, now) ==
    LET p == ProcessCancels(acct, cancel_requests, now) IN
    [account |-> p.account,
     reply |-> [kind |-> "CancelOrders", result |-> "Ok", body |-> p.results],
     events |-> p.events]

AccountCancelOrdersAll(acct, now) ==
    LET open == AllOrders(acct.orders)
        p == ProcessCancels(acct,
                            [i \in DOMAIN open |-> OrderRequestCancel(open[i].state.id)],
                            now) IN
    [account |-> p.account,
     reply |-> [kind |-> "CancelOrdersAll", result |-> "Ok",
                body |-> [i \in DOMAIN p.results |-> p.results[i].order]],
     events |-> p.events]

AccountMatchOrders(acct, instrument, trade, now) ==
    LET m == MatchBook(acct, trade.side, trade.price, trade.amount, now) IN
    [account |-> m.account, reply |-> NoReply, events |-> m.events]

\* ------------------------------------------------ the exchange and its run
\* Most events one run is fed.
MaxEvents == 2
\* Most requests in one open_orders or cancel_orders batch.
MaxBatch == 2

Copies == {1, 2}
ChannelIds == 1..MaxEvents

\* What the producers send: open requests (the second Buy and the second
\* Sell of a run are short of balance), cancel requests for the first order
\* id, public trades that cross the prices of the pool.
OpenRequestPool ==
    {OrderRequestOpen(1, "Buy", "Limit", 2, 1), OrderRequestOpen(2, "Sell", "Limit", 1, 2)}
CancelRequestPool == {OrderRequestCancel(1)}
TradePool ==
    {[side |-> "Sell", price |-> 2, amount |-> 1],
     [side |-> "Buy", price |-> 1, amount |-> 1]}
NoTrade == [side |-> "None", price |-> 0, amount |-> 0]

Batches(pool) == UNION {[1..k -> pool] : k \in 0..MaxBatch}

\* The account every run starts with.
StartAccount == [quote |-> MaxStart, base |-> MaxStart]

\* SimulatedEvent: the reply sender of a client request is the id of its
\* one-shot channel, 0 for a MarketTrade, which carries none.
SimulatedEvent(kind, requests, trade, reply, seq) ==
    [kind |-> kind, requests |-> requests, trade |-> trade, reply |-> reply, seq |-> seq]

\* The SimulatedExchange a successful build returns, with the bookkeeping of
\* its run: the events being handled, the replies sent and delivered, the
\* reply channels the client has dropped, the events pushed, the clock.
SimulatedExchangeNew(b, now) ==
    [event_simulated_rx |-> <<>>,
     account |-> AccountNew(b.account, now),
     handling |-> <<>>,
     returned |-> FALSE,
     handled |-> <<>>,
     sent |-> <<>>,
     inbox |-> [r \in ChannelIds |-> <<>>],
     dropped |-> {},
     event_tx |-> <<>>,
     clock |-> now]

StartExchange ==
    SimulatedExchangeNew(
        TheOne(ExchangeBuilderBuild(
                   ExchangeBuilderAccount(
                       ExchangeBuilderEventSimulatedRx(ExchangeBuilderNew, 1),
                       StartAccount)).exchange),
        0)

\* The handler has run: the account is as it left it, its events are pushed,
\* and its reply goes to the reply channel, where it is delivered unless the
\* client has dropped the receiving end.
Respond(self, to, h) ==
    [self EXCEPT
       !.account = h.account,
       !.event_tx = @ \o h.events,
       !.sent = IF to = 0 THEN @
                ELSE Append(@, [to |-> to, reply |-> h.reply, before |-> self.account]),
       !.inbox = IF to = 0 \/ to \in self.dropped THEN @
                 ELSE [@ EXCEPT ![to] = Append(@, h.reply)]]

\* The match of run: one arm per SimulatedEvent variant.
RunMatchEvent(self, event, now) ==
    CASE event.kind = "FetchOrdersOpen" ->
           Respond(self, event.reply, AccountFetchOrdersOpen(self.account))
      [] event.kind = "FetchBalances" ->
           Respond(self, event.reply, AccountFetchBalances(self.account))
      [] event.kind = "OpenOrders" ->
           Respond(self, event.reply,
                   AccountOpenOrders(self.account, event.requests, now))
      [] event.kind = "CancelOrders" ->
           Respond(self, event.reply,
                   AccountCancelOrders(self.account, event.requests, now))
      [] event.kind = "CancelOrdersAll" ->
           Respond(self, event.reply, AccountCancelOrdersAll(self.account, now))
      [] event.kind = "MarketTrade" ->
           Respond(self, 0,
                   AccountMatchOrders(self.account, TestInstrument, event.trade, now))

\* The body of the loop once the match has run to its end.
Handled(self, event, now) ==
    [self EXCEPT !.handling = Tail(@),
                 !.handled = Append(@, event.seq),
                 !.clock = now]

\* The loop body with a request whose reply channel is closed skipped.
RunLoopBodySkipClosed(self, event, now) ==
    IF event.reply \in self.dropped
    THEN Handled(self, event, now)
    ELSE Handled(RunMatchEvent(self, event, now), event, now)

\* The loop body with the CancelOrdersAll arm left empty.
RunLoopBodyNoCancelAll(self, event, now) ==
    IF event.kind = "CancelOrdersAll"
    THEN Handled(self, event, now)
    ELSE Handled(RunMatchEvent(self, event, now), event, now)

\* The body of the loop of run, for the event recv() returned.
RunLoopBody(self, event, now) ==
    Handled(RunMatchEvent(self, event, now), event, now)

\* recv() that hands out the newest message of the channel.
ChannelRecvNewest(queue) == [event |-> Last(queue), rest |-> Front(queue)]

\* self.event_simulated_rx.recv(): the oldest message of the channel.
ChannelRecv(queue) == [event |-> Head(queue), rest |-> Tail(queue)]

\* A loop that hands each event to a spawned task and receives on.
RecvReadySpawned(self) == TRUE

\* run is back at `recv().await` only when the arm of the previous event
\* has returned.
RecvReady(self) == self.handling = <<>>

\* -------------------------------------------------------- AccountPositions
\* The instruments positions are held on and asked about.
PositionInstruments ==
    {[base |-> "BTC", quote |-> "USDT", kind |-> "Perpetual"],
     [base |-> "ETH", quote |-> "USDT", kind |-> "Perpetual"],
     [base |-> "BTC", quote |-> "USDT", kind |-> "Future"],
     [base |-> "BTC", quote |-> "USDT", kind |-> "CryptoLeveragedToken"]}

\* An instrument of a kind positions are not supported on, and an option.
SpotInstrument == [base |-> "BTC", quote |-> "USDT", kind |-> "Spot"]
OptionInstrument == [base |-> "BTC", quote |-> "USDT", kind |-> "CryptoOption"]
QueryInstruments == PositionInstruments \cup {SpotInstrument, OptionInstrument}

\* The Position variants and what tells two positions of an instrument apart.
PositionKinds == {"Perpetual", "LeveragedToken", "Future", "Option"}
Sides == {"Buy", "Sell"}
Margins == {1000, 2000}

\* Position::kind(position): meta.side, meta.instrument, the NetMode every
\* position is configured with, and a margin.
PositionNew(kind, instrument, side, margin) ==
    [kind |-> kind, meta |-> [instrument |-> instrument, side |-> side],
     position_mode |-> "NetMode", margin |-> margin]

\* A HashMap<Instrument, _> is a function on the instruments it holds.
EmptyMap == <<>>
MapInsert(map, key, value) ==
    [k \in DOMAIN map \cup {key} |-> IF k = key THEN value ELSE map[k]]

MapNames ==
    {"margin_pos_long", "margin_pos_short", "perpetual_pos_long",
     "perpetual_pos_short", "futures_pos_long", "futures_pos_short",
     "option_pos_long_call", "option_pos_long_put", "option_pos_short_call",
     "option_pos_short_put"}

\* AccountPositions::init
AccountPositionsInit == [m \in MapNames |-> EmptyMap]

\* The map the match of update_position picks; "todo" for an Option.
UpdatePositionMap(new_position) ==
    CASE new_position.kind = "Perpetual" ->
           IF new_position.meta.side = "Buy" THEN "perpetual_pos_long"
                                             ELSE "perpetual_pos_short"
      [] new_position.kind = "LeveragedToken" ->
           IF new_position.meta.side = "Buy" THEN "margin_pos_long"
                                             ELSE "margin_pos_short"
      [] new_position.kind = "Future" ->
           IF new_position.meta.side = "Buy" THEN "futures_pos_long"
                                             ELSE "futures_pos_short"
      [] new_position.kind = "Option" -> "todo"

\* update_position clearing the map it picked before it inserts.
UpdatePositionReplaceAll(self, new_position) ==
    LET map == UpdatePositionMap(new_position) IN
    IF map = "todo"
    THEN [result |-> "Panic", positions |-> self]
    ELSE [result |-> "Ok",
          positions |-> [self EXCEPT
                           ![map] = MapInsert(EmptyMap, new_position.meta.instrument,
                                              new_position)]]

\* AccountPositions::update_position: replace the entry of the instrument in
\* the map picked, or insert it; todo!() panics before any map is touched.
UpdatePosition(self, new_position) ==
    LET map == UpdatePositionMap(new_position) IN
    IF map = "todo"
    THEN [result |-> "Panic", positions |-> self]
    ELSE [result |-> "Ok",
          positions |-> [self EXCEPT
                           ![map] = MapInsert(@, new_position.meta.instrument,
                                              new_position)]]

\* The map has_long_position and has_short_position read for a kind of
\* instrument; "todo" for the kinds whose arm is todo!().
HasLongPositionMap(kind) ==
    CASE kind = "Perpetual" -> "perpetual_pos_long"
      [] kind = "Future" -> "futures_pos_long"
      [] kind = "CryptoOption" -> "option_pos_long_call"
      [] kind = "CryptoLeveragedToken" -> "margin_pos_long"
      [] OTHER -> "todo"

\* has_short_position reading the short-call map for an option.
HasShortPositionMapShortCall(kind) ==
    CASE kind = "Perpetual" -> "perpetual_pos_short"
      [] kind = "Future" -> "futures_pos_short"
      [] kind = "CryptoOption" -> "option_pos_short_call"
      [] kind = "CryptoLeveragedToken" -> "margin_pos_short"
      [] OTHER -> "todo"

HasShortPositionMap(kind) ==
    CASE kind = "Perpetual" -> "perpetual_pos_short"
      [] kind = "Future" -> "futures_pos_short"
      [] kind = "CryptoOption" -> "option_pos_short_put"
      [] kind = "CryptoLeveragedToken" -> "margin_pos_short"
      [] OTHER -> "todo"

\* has_long_position looking in the perpetual map whatever the kind.
HasLongPositionPerpetualOnly(self, instrument) ==
    IF HasLongPositionMap(instrument.kind) = "todo"
    THEN [result |-> "Panic", value |-> FALSE]
    ELSE [result |-> "Ok",
          value |-> \E key \in DOMAIN self["perpetual_pos_long"] :
                       key.base = instrument.base /\ key.quote = instrument.quote]

\* AccountPositions::has_long_position: the bool returned, or the panic of
\* a todo!() arm.
HasLongPosition(self, instrument) ==
    IF HasLongPositionMap(instrument.kind) = "todo"
    THEN [result |-> "Panic", value |-> FALSE]
    ELSE [result |-> "Ok",
          value |-> \E key \in DOMAIN self[HasLongPositionMap(instrument.kind)] :
                       key = instrument]

\* AccountPositions::has_short_position
HasShortPosition(self, instrument) ==
    IF HasShortPositionMap(instrument.kind) = "todo"
    THEN [result |-> "Panic", value |-> FALSE]
    ELSE [result |-> "Ok",
          value |-> \E key \in DOMAIN self[HasShortPositionMap(instrument.kind)] :
                       key = instrument]


\* ------------------------------------------------------------ idle parts
NoApplyLog(b) ==
    [orig |-> b, before |-> b, delta |-> BalanceDeltaNew(0, 0), results |-> <<>>]

\* No Balance under test: the state of `balance` in the other specifications.
IdleBalance ==
    /\ balance = BalanceNew(0, 0, 0)
    /\ applyLog = NoApplyLog(balance)

NotBuilt == [from |-> ExchangeBuilderNew, result |-> "None", error |-> NoError,
             exchange |-> None]

\* No builder in hand: the state of the builder in the other specifications.
IdleBuilder ==
    /\ builder = None
    /\ built = NotBuilt

\* The exchange as built, before anything is sent to it.
IdleExchange ==
    /\ exchange = [c \in Copies |-> StartExchange]
    /\ arrived = <<>>
    /\ senders = TRUE

NoPosition == PositionNew("None", SpotInstrument, "Buy", 0)

NoQuery == [result |-> "None", value |-> FALSE]

NoPosCall(count) ==
    [call |-> "None", position |-> NoPosition, instrument |-> SpotInstrument,
     before |-> AccountPositionsInit, result |-> "None",
     long |-> NoQuery, short |-> NoQuery, count |-> count]

\* No AccountPositions under test.
IdlePositions ==
    /\ account_positions = AccountPositionsInit
    /\ posLog = NoPosCall(0)

NoOrderCall ==
    [op |-> "None", request |-> OrderRequestCancel(0), trade |-> NoTrade,
     before |-> AccountNew(StartAccount, 0), result |-> Err("None"), events |-> <<>>]

\* No order id assigned yet.
NoOrderIds == [timestamp |-> 0, machine_id |-> 0, counter |-> 0, assigned |-> <<>>]

IdleIds == order_ids = NoOrderIds

\* No replay started.
NoReplay == [mode |-> "None"]

IdleReplay == replay = NoReplay

\* No thread at the locks of the position maps.
NoLocks == [op |-> "None"]

IdleLocks == locks = NoLocks

\* No account under open and cancel requests.
IdleReserve ==
    reserve = [account |-> AccountNew(StartAccount, 0), leverage |-> 1,
               last |-> NoOrderCall, prev |-> NoOrderCall, closed |-> {}]


\* --------------------------------------------- a Balance under apply calls
\* applyLog records the calls made on `balance`: the balance before the
\* first call of the current pair (orig), before the latest call (before),
\* the latest delta and the results of the current pair of calls.
WithinAmounts(b) == b.total <= MaxAmount /\ b.available <= MaxAmount

InitBalance ==
    /\ \E t \in Amounts : \E a \in 0..t : balance = BalanceNew(t, a, 0)
    /\ applyLog = NoApplyLog(balance)
    /\ IdleBuilder
    /\ IdleExchange
    /\ IdlePositions
    /\ IdleReserve
    /\ IdleIds
    /\ IdleReplay /\ IdleLocks

\* balance.apply(delta) with an arbitrary delta.
Apply(delta, now) ==
    LET r == BalanceApply(balance, delta, now) IN
    /\ WithinAmounts(r.balance)
    /\ balance' = r.balance
    /\ applyLog' = [orig |-> balance, before |-> balance,
                    delta |-> delta, results |-> <<r.result>>]

\* balance.apply(-d), d being the delta of the call just made.
ApplyNegated(now) ==
    LET d == BalanceDeltaNegated(applyLog.delta)
        r == BalanceApply(balance, d, now) IN
    /\ Len(applyLog.results) = 1
    /\ WithinAmounts(r.balance)
    /\ balance' = r.balance
    /\ applyLog' = [applyLog EXCEPT !.before = balance, !.delta = d,
                                    !.results = Append(@, r.result)]

NextBalance ==
    \/ \E dt \in Deltas, da \in Deltas, now \in Times :
          Apply(BalanceDeltaNew(dt, da), now) /\ UNCHANGED <<bldVars, exVars, posVars, resVars, idVars, rpVars, lkVars>>
    \/ \E now \in Times : ApplyNegated(now) /\ UNCHANGED <<bldVars, exVars, posVars, resVars, idVars, rpVars, lkVars>>

SpecBalance == InitBalance /\ [][NextBalance]_vars

\* ------------------------------------------------- claims about Balance
LastResult == applyLog.results[Len(applyLog.results)]

\* C1 (as stated): after any sequence of apply calls with arbitrary deltas
\* the balance satisfies 0 <= available and available <= total.
C1_AvailableWithinTotal ==
    0 <= balance.available /\ balance.available <= balance.total

\* C1 (amended): after any sequence of apply calls, accepted or rejected,
\* total >= 0 and available >= 0; and a call whose delta has
\* delta.available <= delta.total keeps available <= total.
C1_NonNegativeAndOrderKept ==
    /\ [](balance.total >= 0 /\ balance.available >= 0)
    /\ [][(/\ balance.available <= balance.total
           /\ applyLog'.delta.available <= applyLog'.delta.total)
          => balance'.available <= balance'.total]_vars

\* C1 witness: an accepted delta has taken available from a positive amount
\* down to exactly 0.
C1_Witness ==
    /\ applyLog.results /= <<>>
    /\ LastResult = "Ok"
    /\ applyLog.before.available > 0
    /\ balance.available = 0

\* C2: apply returns an error whenever total + delta.total < 0 or
\* available + delta.available < 0, and then total and available are both
\* left as they were.
C2_RejectedApplyChangesNothing ==
    (/\ applyLog.results /= <<>>
     /\ \/ applyLog.before.total + applyLog.delta.total < 0
        \/ applyLog.before.available + applyLog.delta.available < 0)
    => /\ LastResult = "Err"
       /\ balance.total = applyLog.before.total
       /\ balance.available = applyLog.before.available

\* C2 witness: a call was rejected for its available alone, with a delta
\* whose total is non-zero and would have been acceptable.
C2_Witness ==
    /\ applyLog.results /= <<>>
    /\ LastResult = "Err"
    /\ applyLog.delta.total /= 0
    /\ applyLog.before.total + applyLog.delta.total >= 0
    /\ applyLog.before.available + applyLog.delta.available < 0

\* C3 (as stated): apply(d) then apply(-d) leaves total and available as in
\* b, whatever the outcome of each of the two calls.
C3_RoundTripAnyOutcome ==
    Len(applyLog.results) = 2
    => /\ balance.total = applyLog.orig.total
       /\ balance.available = applyLog.orig.available

\* C3 (amended): if apply(d) is accepted then apply(-d) is accepted too and
\* leaves total and available as in b.
C3_RoundTripWhenAccepted ==
    (Len(applyLog.results) = 2 /\ applyLog.results[1] = "Ok")
    => /\ applyLog.results[2] = "Ok"
       /\ balance.total = applyLog.orig.total
       /\ balance.available = applyLog.orig.available

\* C3 witness: an accepted delta that moved both fields has been undone by
\* its negation, which was accepted as well.
C3_Witness ==
    /\ Len(applyLog.results) = 2
    /\ applyLog.results = <<"Ok", "Ok">>
    /\ applyLog.delta.total /= 0
    /\ applyLog.delta.available /= 0
    /\ applyLog.before /= balance
    /\ balance.total = applyLog.orig.total

\* ------------------------------------------------ building an exchange
InitBuilder ==
    /\ IdleBalance
    /\ IdleBuilder
    /\ IdleExchange
    /\ IdlePositions
    /\ IdleReserve
    /\ IdleIds
    /\ IdleReplay /\ IdleLocks

\* SimulatedExchange::builder()
Builder ==
    /\ builder = None
    /\ builder' = Some(ExchangeBuilderNew)
    /\ UNCHANGED built

\* builder.event_simulated_rx(value)
SetEventSimulatedRx(value) ==
    /\ builder /= None
    /\ builder' = Some(ExchangeBuilderEventSimulatedRx(TheOne(builder), value))
    /\ UNCHANGED built

\* builder.account(value)
SetAccount(value) ==
    /\ builder /= None
    /\ builder' = Some(ExchangeBuilderAccount(TheOne(builder), value))
    /\ UNCHANGED built

\* builder.build(): `self` is moved into the call.
Build ==
    /\ builder /= None
    /\ LET b == TheOne(builder)
           r == ExchangeBuilderBuild(b) IN
       built' = [from |-> b, result |-> r.result, error |-> r.error,
                 exchange |-> r.exchange]
    /\ builder' = None

NextBuilder ==
    \/ Builder /\ UNCHANGED <<balVars, exVars, posVars, resVars, idVars, rpVars, lkVars>>
    \/ \E value \in 1..MaxChannel : SetEventSimulatedRx(value) /\ UNCHANGED <<balVars, exVars, posVars, resVars, idVars, rpVars, lkVars>>
    \/ \E value \in StartAccounts : SetAccount(value) /\ UNCHANGED <<balVars, exVars, posVars, resVars, idVars, rpVars, lkVars>>
    \/ Build /\ UNCHANGED <<balVars, exVars, posVars, resVars, idVars, rpVars, lkVars>>

SpecBuilder == InitBuilder /\ [][NextBuilder]_vars

\* ------------------------------------------ claims about ExchangeBuilder
\* C10: build succeeds if and only if both event_simulated_rx and account
\* have been set; otherwise it returns BuilderIncomplete naming the missing
\* field, event_simulated_rx when both are missing; no exchange is
\* constructed in the error case, and a successful build constructs the
\* exchange from the two values that were set.
C10_BuildNeedsBothFields ==
    built.result /= "None" =>
        LET rxSet == built.from.event_simulated_rx /= None
            accountSet == built.from.account /= None IN
        /\ (built.result = "Ok") <=> (rxSet /\ accountSet)
        /\ ~rxSet => /\ built.result = "Err"
                     /\ built.error = ExecutionErrorBuilderIncomplete("event_simulated_rx")
        /\ (rxSet /\ ~accountSet) =>
                     /\ built.result = "Err"
                     /\ built.error = ExecutionErrorBuilderIncomplete("account")
        /\ built.result = "Err" => built.exchange = None
        /\ built.result = "Ok" =>
              built.exchange = Some([event_simulated_rx |-> TheOne(built.from.event_simulated_rx),
                                     account |-> TheOne(built.from.account)])

\* C10 witness: build was called on a builder with neither field set and
\* reported event_simulated_rx.
C10_Witness ==
    /\ built.result = "Err"
    /\ built.from = ExchangeBuilderNew
    /\ built.error.field = "event_simulated_rx"

\* -------------------------------------------------- running the exchange
\* Init: the exchange has been built from a request channel and the start
\* account; nothing has been sent yet.
InitExchange ==
    /\ IdleBalance
    /\ IdleBuilder
    /\ IdleExchange
    /\ IdlePositions
    /\ IdleReserve
    /\ IdleIds
    /\ IdleReplay /\ IdleLocks

\* The event goes on the request channel of every run in `copies`.
Send(copies, event) ==
    /\ senders
    /\ Len(arrived) < MaxEvents
    /\ arrived' = Append(arrived, event)
    /\ exchange' = [c \in Copies |->
                      IF c \in copies
                      THEN [exchange[c] EXCEPT !.event_simulated_rx = Append(@, event)]
                      ELSE exchange[c]]
    /\ UNCHANGED senders

\* A client call: a fresh one-shot reply channel, one message on the request
\* channel carrying its sender.
ClientCall(copies, kind, requests) ==
    Send(copies, SimulatedEvent(kind, requests, NoTrade,
                                Len(arrived) + 1, Len(arrived) + 1))

\* The market-data producer sends a public trade.
MarketTrade(copies, trade) ==
    Send(copies, SimulatedEvent("MarketTrade", <<>>, trade, 0, Len(arrived) + 1))

\* The client drops the receiving end of reply channel r of run c before its
\* request has been handled.
ClientDrop(c, r) ==
    /\ r <= Len(arrived)
    /\ arrived[r].reply = r
    /\ r \notin exchange[c].dropped
    /\ \A i \in DOMAIN exchange[c].handled : exchange[c].handled[i] /= r
    /\ exchange' = [exchange EXCEPT ![c].dropped = @ \cup {r}]
    /\ UNCHANGED <<arrived, senders>>

\* Every sender of the request channel is dropped.
DropSenders ==
    /\ senders
    /\ senders' = FALSE
    /\ UNCHANGED <<exchange, arrived>>

\* recv().await returns Some(event).
Recv(c) ==
    LET self == exchange[c] IN
    /\ ~self.returned
    /\ RecvReady(self)
    /\ self.event_simulated_rx /= <<>>
    /\ exchange' = [exchange EXCEPT
                      ![c].event_simulated_rx = ChannelRecv(self.event_simulated_rx).rest,
                      ![c].handling = Append(@, ChannelRecv(self.event_simulated_rx).event)]
    /\ UNCHANGED <<arrived, senders>>

\* recv().await returns None: the channel is empty and closed, run returns.
\* A recv that reports None on an empty queue whatever the senders do.
RecvNoneOnEmpty(c) ==
    LET self == exchange[c] IN
    /\ ~self.returned
    /\ RecvReady(self)
    /\ self.event_simulated_rx = <<>>
    /\ exchange' = [exchange EXCEPT ![c].returned = TRUE]
    /\ UNCHANGED <<arrived, senders>>

RecvNone(c) ==
    LET self == exchange[c] IN
    /\ ~self.returned
    /\ RecvReady(self)
    /\ self.event_simulated_rx = <<>>
    /\ ~senders
    /\ exchange' = [exchange EXCEPT ![c].returned = TRUE]
    /\ UNCHANGED <<arrived, senders>>

\* The arm of the event in hand runs to its end; `now` is what the wall
\* clock reads while it runs.
Handle(c, now) ==
    LET self == exchange[c] IN
    /\ self.handling /= <<>>
    /\ now >= self.clock
    /\ exchange' = [exchange EXCEPT ![c] = RunLoopBody(self, Head(self.handling), now)]
    /\ UNCHANGED <<arrived, senders>>

Produce(copies) ==
    \/ ClientCall(copies, "FetchOrdersOpen", <<>>)
    \/ ClientCall(copies, "FetchBalances", <<>>)
    \/ \E open_requests \in Batches(OpenRequestPool) :
          ClientCall(copies, "OpenOrders", open_requests)
    \/ \E cancel_requests \in Batches(CancelRequestPool) :
          ClientCall(copies, "CancelOrders", cancel_requests)
    \/ ClientCall(copies, "CancelOrdersAll", <<>>)
    \/ \E trade \in TradePool : MarketTrade(copies, trade)

\* The task of run c makes a step; `times` is what its wall clock may read.
Run(c, times) ==
    \/ Recv(c)
    \/ RecvNone(c)
    \/ \E now \in times : Handle(c, now)

\* A step of the task of the one exchange; its wall clock stands still.
RunStep == Run(1, {exchange[1].clock}) /\ UNCHANGED <<balVars, bldVars, posVars, resVars, idVars, rpVars, lkVars>>

\* One exchange, its client and its market-data producer.
Next ==
    \/ Produce({1}) /\ UNCHANGED <<balVars, bldVars, posVars, resVars, idVars, rpVars, lkVars>>
    \/ (\E r \in ChannelIds : ClientDrop(1, r)) /\ UNCHANGED <<balVars, bldVars, posVars, resVars, idVars, rpVars, lkVars>>
    \/ DropSenders /\ UNCHANGED <<balVars, bldVars, posVars, resVars, idVars, rpVars, lkVars>>
    \/ RunStep

Spec == InitExchange /\ [][Next]_vars

\* ENABLED RunStep spelled out: an event is in hand, or run is at recv() and
\* the channel holds an event or is closed.
RunEnabled ==
    LET self == exchange[1] IN
    \/ self.handling /= <<>>
    \/ ~self.returned /\ (self.event_simulated_rx /= <<>> \/ ~senders)

RunEnabledIsEnabled == RunEnabled <=> ENABLED RunStep

\* What every step of the task changes and no other step does.
RunProgress == <<exchange[1].handling, exchange[1].returned>>

\* The task of run is polled whenever it can make a step: weak fairness of
\* RunStep, written with ENABLED RunStep as RunEnabled and a RunStep step as
\* a step that changes RunProgress.
FairSpec == Spec /\ ([]<>(~RunEnabled) \/ []<><<TRUE>>_RunProgress)

\* Two runs fed the same events.  The second is the reference run: its task
\* is scheduled as soon as an event arrives, its clock reads 0 throughout and
\* its client keeps every reply channel alive.  The first run is free in all
\* three, its clock included; two runs that each agree with the reference
\* agree with each other.
Reference ==
    LET self == exchange[2] IN
    /\ self.event_simulated_rx /= <<>>
    /\ exchange' = [exchange EXCEPT
                      ![2] = RunLoopBody(
                                 [self EXCEPT
                                    !.event_simulated_rx = ChannelRecv(@).rest,
                                    !.handling = <<ChannelRecv(self.event_simulated_rx).event>>],
                                 ChannelRecv(self.event_simulated_rx).event, 0)]
    /\ UNCHANGED <<arrived, senders>>

ReferenceIdle == exchange[2].event_simulated_rx = <<>>

NextDual ==
    \/ ReferenceIdle /\ Produce(Copies) /\ UNCHANGED <<balVars, bldVars, posVars, resVars, idVars, rpVars, lkVars>>
    \/ Reference /\ UNCHANGED <<balVars, bldVars, posVars, resVars, idVars, rpVars, lkVars>>
    \/ ReferenceIdle /\ (\E r \in ChannelIds : ClientDrop(1, r))
          /\ UNCHANGED <<balVars, bldVars, posVars, resVars, idVars, rpVars, lkVars>>
    \/ ReferenceIdle /\ DropSenders /\ UNCHANGED <<balVars, bldVars, posVars, resVars, idVars, rpVars, lkVars>>
    \/ ReferenceIdle /\ Run(1, Times) /\ UNCHANGED <<balVars, bldVars, posVars, resVars, idVars, rpVars, lkVars>>

SpecDual == InitExchange /\ [][NextDual]_vars

\* ------------------------------------------------ claims about the run loop
\* C4: the run loop handles each event to its end before it receives the
\* next: never are two handlers in progress, and the account and the event
\* channel change only in the step that ends the one handler in progress,
\* however the client and the market-data producer interleave their sends.
C4_OneHandlerAtATime ==
    /\ [](Len(exchange[1].handling) <= 1)
    /\ [][(\/ exchange'[1].account /= exchange[1].account
           \/ exchange'[1].event_tx /= exchange[1].event_tx)
          => /\ Len(exchange[1].handling) = 1
             /\ exchange'[1].handling = <<>>
             /\ exchange'[1].handled = Append(exchange[1].handled,
                                              exchange[1].handling[1].seq)]_vars

\* C4 witness: an event is being handled while the next one, sent meanwhile,
\* waits in the channel.
C4_Witness ==
    /\ Len(exchange[1].handling) = 1
    /\ exchange[1].event_simulated_rx /= <<>>
    /\ exchange[1].handled = <<>>

\* C5: events are handled in the order they arrived: the handled events are
\* the first k arrivals in order, an event in hand is arrival k + 1, and the
\* channel holds the remaining arrivals in order; none is reordered, skipped
\* or handled twice.
C5_ArrivalOrder ==
    LET self == exchange[1]
        k == Len(self.handled) IN
    /\ self.handled = [i \in 1..k |-> i]
    /\ \A i \in DOMAIN self.handling : self.handling[i].seq = k + 1
    /\ self.handling \o self.event_simulated_rx = SubSeq(arrived, k + 1, Len(arrived))

\* C5 witness: a client request and then a market trade were both in the
\* channel at once, and the trade has filled the order the request opened.
C5_Witness ==
    /\ Len(arrived) = 2
    /\ arrived[1].kind = "OpenOrders"
    /\ arrived[2].kind = "MarketTrade"
    /\ exchange[1].handled = <<1, 2>>
    /\ exchange[1].account.positions /= [long |-> 0, short |-> 0]
    /\ \E i \in DOMAIN exchange[1].sent : exchange[1].sent[i].before.orders =
                                             [bids |-> <<>>, asks |-> <<>>]

\* A Balance, an account, an account event and a reply without the time
\* stamps of their balances.
BalanceTimeless(b) == [total |-> b.total, available |-> b.available]

AccountTimeless(acct) ==
    [acct EXCEPT !.balances = [t \in Tokens |-> BalanceTimeless(acct.balances[t])]]

EventTimeless(e) ==
    IF e.kind = "Balance" THEN [e EXCEPT !.balance = BalanceTimeless(@)] ELSE e

ReplyTimeless(r) ==
    IF r.kind = "Balances"
    THEN [r EXCEPT !.body = [i \in DOMAIN r.body |->
                               [r.body[i] EXCEPT !.balance = BalanceTimeless(@)]]]
    ELSE r

\* The replies a run has sent, in order, each with its reply channel.
Replies(self) ==
    [i \in DOMAIN self.sent |-> [to |-> self.sent[i].to, reply |-> self.sent[i].reply]]

RepliesTimeless(self) ==
    [i \in DOMAIN self.sent |->
       [to |-> self.sent[i].to, reply |-> ReplyTimeless(self.sent[i].reply)]]

EventsTimeless(self) ==
    [i \in DOMAIN self.event_tx |-> EventTimeless(self.event_tx[i])]

\* The first run has handled as many events as the reference run.
SameProgress ==
    /\ exchange[1].handling = <<>>
    /\ Len(exchange[1].handled) = Len(exchange[2].handled)

C7_DroppedReplyStillProcessed ==
    LET self == exchange[1] IN
    /\ \A r \in self.dropped : self.inbox[r] = <<>>
    /\ \A r \in self.dropped :
          (\E i \in DOMAIN self.handled : self.handled[i] = r)
          => \E j \in DOMAIN self.sent : self.sent[j].to = r
    /\ (self.dropped /= {} /\ SameProgress)
          => /\ AccountTimeless(self.account) = AccountTimeless(exchange[2].account)
             /\ EventsTimeless(self) = EventsTimeless(exchange[2])
    /\ self.returned
          => ~senders /\ self.event_simulated_rx = <<>> /\ self.handling = <<>>

\* C7 witness: the reply channel of an open_orders that rested an order was
\* dropped, the request and the event after it have been handled.
C7_Witness ==
    LET self == exchange[1] IN
    /\ 1 \in self.dropped
    /\ self.handled = <<1, 2>>
    /\ arrived[1].kind = "OpenOrders"
    /\ self.account.order_counter > 0
    /\ self.inbox[1] = <<>>

\* The kind of reply each kind of request is answered with.
ReplyKindOf(kind) ==
    CASE kind = "FetchOrdersOpen" -> "OrdersOpen"
      [] kind = "FetchBalances" -> "Balances"
      [] kind = "OpenOrders" -> "OpenOrders"
      [] kind = "CancelOrders" -> "CancelOrders"
      [] kind = "CancelOrdersAll" -> "CancelOrdersAll"
      [] OTHER -> "None"

\* Every reply sent went to the channel of a handled client request, is of
\* the kind of that request, and is the only one sent there; what a channel
\* has delivered is what was sent to it.
RepliesMatchRequests ==
    LET self == exchange[1] IN
    /\ \A i \in DOMAIN self.sent :
          LET to == self.sent[i].to IN
          /\ to \in 1..Len(arrived)
          /\ arrived[to].reply = to
          /\ \E j \in DOMAIN self.handled : self.handled[j] = to
          /\ self.sent[i].reply.kind = ReplyKindOf(arrived[to].kind)
          /\ \A j \in DOMAIN self.sent : self.sent[j].to = to => j = i
    /\ \A r \in ChannelIds :
          /\ Len(self.inbox[r]) <= 1
          /\ \A n \in DOMAIN self.inbox[r] :
                \E i \in DOMAIN self.sent :
                   self.sent[i].to = r /\ self.sent[i].reply = self.inbox[r][n]
    /\ \A n \in DOMAIN arrived :
          /\ arrived[n].seq = n
          /\ arrived[n].kind = "MarketTrade" => arrived[n].reply = 0 /\ self.inbox[n] = <<>>
          /\ arrived[n].kind /= "MarketTrade" => arrived[n].reply = n

\* C8: a client call is one message on the request channel; its reply, one
\* at most and of its own kind, comes on its own reply channel and on no
\* other, a MarketTrade is answered by none; and while run is scheduled every
\* call whose reply channel is alive is answered in the end.
C8_OneReplyPerCall ==
    /\ []RepliesMatchRequests
    /\ \A r \in ChannelIds :
          (r <= Len(arrived) /\ arrived[r].reply = r /\ r \notin exchange[1].dropped)
          ~> (exchange[1].inbox[r] /= <<>> \/ r \in exchange[1].dropped)

\* C8 witness: a market trade and a client call were sent; the call has its
\* reply, the trade has none.
C8_Witness ==
    /\ Len(arrived) = 2
    /\ arrived[1].kind = "MarketTrade"
    /\ arrived[2].kind = "CancelOrdersAll"
    /\ exchange[1].inbox[1] = <<>>
    /\ Len(exchange[1].inbox[2]) = 1

\* The requests of a batch whose result in `body` is Ok.
AcceptedOf(requests, body) ==
    LET idx == SelectSeq([i \in DOMAIN requests |-> i], LAMBDA i : body[i].ok) IN
    [j \in DOMAIN idx |-> requests[idx[j]]]

\* An Ok result is the order of the request at its position.
AnswersRequest(kind, request, result) ==
    result.ok =>
        IF kind = "OpenOrders"
        THEN result.order = OrderOpenFrom(result.order.state.id, request)
        ELSE result.order.state.id = request.state.id

\* C9: the reply to a batch of n open or cancel requests holds n results,
\* result i being the outcome of request i; the results reported for the
\* accepted requests are those the batch without its failing requests gets.
C9_BatchReplyAligned ==
    \A i \in DOMAIN exchange[1].sent :
       LET s == exchange[1].sent[i]
           kind == s.reply.kind
           requests == arrived[s.to].requests
           body == s.reply.body
           alone == IF kind = "OpenOrders"
                    THEN ProcessOpens(s.before, AcceptedOf(requests, body), 0).results
                    ELSE ProcessCancels(s.before, AcceptedOf(requests, body), 0).results IN
       kind \in {"OpenOrders", "CancelOrders"} =>
          /\ Len(body) = Len(requests)
          /\ \A n \in DOMAIN body : AnswersRequest(kind, requests[n], body[n])
          /\ alone = SelectSeq(body, LAMBDA r : r.ok)

\* C9 witness: a batch of two open requests whose first failed for want of
\* balance and whose second was accepted.
C9_Witness ==
    \E i \in DOMAIN exchange[1].sent :
       LET body == exchange[1].sent[i].reply.body IN
       /\ exchange[1].sent[i].reply.kind = "OpenOrders"
       /\ Len(body) = 2
       /\ ~body[1].ok
       /\ body[2].ok

\* ------------------------------ an account under open and cancel requests
\* Largest account_leverage_rate, and the most orders the account opens.
MaxLeverage == 2
MaxOrders == 2

Leverages == 1..MaxLeverage

\* The open requests that reach the account: of either side, some within
\* the balance the account starts with and some beyond what is left of it.
OrderRequests ==
    {OrderRequestOpen(1, "Buy", "Limit", 2, 1), OrderRequestOpen(1, "Buy", "Limit", 2, 2),
     OrderRequestOpen(1, "Sell", "Limit", 1, 2), OrderRequestOpen(1, "Sell", "Limit", 2, 1)}

\* The public trades that reach the account: of either side, at prices on
\* both sides of every resting order, for part or all of an order.
AccountTrades ==
    {[side |-> "Buy", price |-> price, amount |-> amount] :
        price \in 1..2, amount \in 1..2}
    \cup {[side |-> "Sell", price |-> price, amount |-> amount] :
        price \in 2..3, amount \in 1..2}

\* The ids the events report as cancelled or fully filled.
ClosedIds(events) ==
    {events[n].order.state.id : n \in {m \in DOMAIN events : events[m].kind = "OrdersCancelled"}}
    \cup {events[n].state.id : n \in {m \in DOMAIN events : events[m].kind = "OrdersFilled"}}

\* reserve.last and reserve.prev are the latest two requests or trades, each
\* with the account it met, its result and the events it pushed;
\* reserve.closed holds the ids reported cancelled or fully filled so far.
InitOrders ==
    /\ IdleBalance
    /\ IdleBuilder
    /\ IdleExchange
    /\ IdlePositions
    /\ IdleIds
    /\ IdleReplay /\ IdleLocks
    /\ \E leverage \in Leverages :
          reserve = [account |-> AccountNew(StartAccount, 0), leverage |-> leverage,
                     last |-> NoOrderCall, prev |-> NoOrderCall, closed |-> {}]

\* One open request reaches the account.
OpenOrder(request, now) ==
    LET r == TryOpenOrder(reserve.account, request, now) IN
    /\ reserve.account.order_counter < MaxOrders
    /\ reserve' = [reserve EXCEPT
                     !.account = r.account,
                     !.last = [op |-> "open", request |-> request, trade |-> NoTrade,
                               before |-> reserve.account, result |-> r.result,
                               events |-> r.events],
                     !.prev = reserve.last]

\* One cancel request reaches the account.
CancelOrder(id, now) ==
    LET request == OrderRequestCancel(id)
        r == TryCancelOrder(reserve.account, request, now) IN
    /\ reserve' = [reserve EXCEPT
                     !.account = r.account,
                     !.last = [op |-> "cancel", request |-> request, trade |-> NoTrade,
                               before |-> reserve.account, result |-> r.result,
                               events |-> r.events],
                     !.prev = reserve.last,
                     !.closed = @ \cup ClosedIds(r.events)]

\* One public trade reaches the account.
MatchTrade(trade, now) ==
    LET r == AccountMatchOrders(reserve.account, TestInstrument, trade, now) IN
    /\ reserve' = [reserve EXCEPT
                     !.account = r.account,
                     !.last = [op |-> "trade", request |-> OrderRequestCancel(0),
                               trade |-> trade, before |-> reserve.account,
                               result |-> Err("None"), events |-> r.events],
                     !.prev = reserve.last,
                     !.closed = @ \cup ClosedIds(r.events)]

NextOrders ==
    \/ \E request \in OrderRequests, now \in Times :
          OpenOrder(request, now) /\ UNCHANGED <<balVars, bldVars, exVars, posVars, idVars, rpVars, lkVars>>
    \/ \E id \in 1..MaxOrders, now \in Times :
          CancelOrder(id, now) /\ UNCHANGED <<balVars, bldVars, exVars, posVars, idVars, rpVars, lkVars>>

SpecOrders == InitOrders /\ [][NextOrders]_vars

\* The same account with public trades reaching it between the requests.
\* Matching reads no clock, so every call carries the one timestamp 0.
InitMatch ==
    /\ IdleBalance /\ IdleBuilder /\ IdleExchange /\ IdlePositions
    /\ IdleIds /\ IdleReplay /\ IdleLocks
    /\ reserve = [account |-> AccountNew(StartAccount, 0), leverage |-> 1,
                  last |-> NoOrderCall, prev |-> NoOrderCall, closed |-> {}]

NextMatch ==
    \/ \E request \in OrderRequests :
          OpenOrder(request, 0) /\ UNCHANGED <<balVars, bldVars, exVars, posVars, idVars, rpVars, lkVars>>
    \/ \E id \in 1..MaxOrders :
          CancelOrder(id, 0) /\ UNCHANGED <<balVars, bldVars, exVars, posVars, idVars, rpVars, lkVars>>
    \/ \E trade \in AccountTrades :
          MatchTrade(trade, 0) /\ UNCHANGED <<balVars, bldVars, exVars, posVars, idVars, rpVars, lkVars>>

SpecMatch == InitMatch /\ [][NextMatch]_vars


\* ------------------------------- an AccountPositions under update and query
MaxUpdates == 2

\* posLog records the latest call: the maps it met and what it returned;
\* posLog.count is the number of update_position calls made.
InitPositions ==
    /\ IdleBalance /\ IdleBuilder /\ IdleExchange /\ IdleReserve
    /\ IdleIds /\ IdleReplay /\ IdleLocks
    /\ account_positions = AccountPositionsInit
    /\ posLog = NoPosCall(0)

\* One update_position call.
UpdatePositionCall(new_position) ==
    LET r == UpdatePosition(account_positions, new_position) IN
    /\ posLog.count < MaxUpdates
    /\ account_positions' = r.positions
    /\ posLog' = [NoPosCall(posLog.count + 1) EXCEPT
                    !.call = "update",
                    !.position = new_position,
                    !.instrument = new_position.meta.instrument,
                    !.before = account_positions,
                    !.result = r.result]

\* has_long_position and has_short_position asked about one instrument.
QueryPositionCall(instrument) ==
    /\ account_positions' = account_positions
    /\ posLog' = [NoPosCall(posLog.count) EXCEPT
                    !.call = "query",
                    !.instrument = instrument,
                    !.before = account_positions,
                    !.result = "Ok",
                    !.long = HasLongPosition(account_positions, instrument),
                    !.short = HasShortPosition(account_positions, instrument)]

NextPositions ==
    \/ \E kind \in PositionKinds, instrument \in PositionInstruments,
          side \in Sides, margin \in Margins :
          /\ UpdatePositionCall(PositionNew(kind, instrument, side, margin))
          /\ UNCHANGED <<balVars, bldVars, exVars, resVars, idVars, rpVars, lkVars>>
    \/ \E instrument \in QueryInstruments :
          QueryPositionCall(instrument) /\ UNCHANGED <<balVars, bldVars, exVars, resVars, idVars, rpVars, lkVars>>

SpecPositions == InitPositions /\ [][NextPositions]_vars

\* ------------------------------------------------ claims about positions
\* The long and the short map of a kind of instrument, as the claims name them.
LongMapOf(kind) ==
    CASE kind = "Perpetual" -> "perpetual_pos_long"
      [] kind = "Future" -> "futures_pos_long"
      [] kind = "CryptoLeveragedToken" -> "margin_pos_long"

ShortMapOf(kind) ==
    CASE kind = "Perpetual" -> "perpetual_pos_short"
      [] kind = "Future" -> "futures_pos_short"
      [] kind = "CryptoLeveragedToken" -> "margin_pos_short"

LeveragedKinds == {"Perpetual", "Future", "CryptoLeveragedToken"}

\* C15 as stated: positions being configured NetMode, no instrument is in
\* the long and in the short map of its kind at once.
C15_NetModeOneSide ==
    \A i \in PositionInstruments :
        ~(/\ i \in DOMAIN account_positions[LongMapOf(i.kind)]
          /\ i \in DOMAIN account_positions[ShortMapOf(i.kind)]
          /\ account_positions[LongMapOf(i.kind)][i].position_mode = "NetMode"
          /\ account_positions[ShortMapOf(i.kind)][i].position_mode = "NetMode")

\* C16: for an instrument of kind Perpetual, Future or CryptoLeveragedToken,
\* has_long_position is true iff the long map of that kind holds the
\* instrument and has_short_position iff the short map of that kind does;
\* so both are false while every map is empty, and a position in a map of
\* another kind or side does not make either true.
C16_QueriesReadOwnMap ==
    LET i == posLog.instrument IN
    (posLog.call = "query" /\ i.kind \in LeveragedKinds) =>
        /\ posLog.long.result = "Ok"
        /\ posLog.short.result = "Ok"
        /\ posLog.long.value <=> i \in DOMAIN account_positions[LongMapOf(i.kind)]
        /\ posLog.short.value <=> i \in DOMAIN account_positions[ShortMapOf(i.kind)]
        /\ account_positions = AccountPositionsInit
              => (~posLog.long.value /\ ~posLog.short.value)

\* C16 witness: a query answered long and not short, while the instrument
\* is also a key of a map of another kind.
C16_Witness ==
    /\ posLog.call = "query"
    /\ posLog.instrument.kind \in LeveragedKinds
    /\ posLog.long.value
    /\ ~posLog.short.value
    /\ \E m \in MapNames \ {LongMapOf(posLog.instrument.kind)} :
          posLog.instrument \in DOMAIN account_positions[m]

\* What C17 says of one update_position call that met the maps `before`
\* and left the maps `after`.
IsUpsert(before, after, p) ==
    LET map == UpdatePositionMap(p)
        i == p.meta.instrument IN
    /\ map \in MapNames
    /\ DOMAIN after[map] = DOMAIN before[map] \cup {i}
    /\ after[map][i] = p
    /\ Cardinality(DOMAIN after[map])
          = Cardinality(DOMAIN before[map]) + (IF i \in DOMAIN before[map] THEN 0 ELSE 1)
    /\ \A k \in DOMAIN before[map] \ {i} : after[map][k] = before[map][k]
    /\ \A m \in MapNames \ {map} : after[m] = before[m]

ReservedToken(request) ==
    IF request.side = "Buy" THEN request.instrument.quote ELSE request.instrument.base

\* C11 as stated: an accepted open request takes price*size/leverage (Buy,
\* quote token) or size (Sell, base token) off `available` of that one token
\* and leaves every total and the other available as they were.
C11_ReservesRequiredOverLeverage ==
    LET c == reserve.last
        token == ReservedToken(c.request)
        taken == c.before.balances[token].available
                    - reserve.account.balances[token].available IN
    (c.op = "open" /\ c.result.ok) =>
        /\ IF c.request.side = "Buy"
           THEN taken * reserve.leverage = c.request.state.price * c.request.state.size
           ELSE taken = c.request.state.size
        /\ \A t \in Tokens :
              /\ reserve.account.balances[t].total = c.before.balances[t].total
              /\ t /= token => reserve.account.balances[t].available
                                  = c.before.balances[t].available

\* C12: an open request that needs more than the `available` of the token
\* it reserves fails with InsufficientBalance and leaves the account, its
\* books and every field of every balance, as it was.
C12_InsufficientBalanceChangesNothing ==
    LET c == reserve.last
        need == CalculateRequiredAvailableBalance(c.request) IN
    (c.op = "open" /\ need.amount > c.before.balances[need.token].available) =>
        /\ c.result = Err("InsufficientBalance")
        /\ reserve.account = c.before

\* C12 witness: with an order resting, a request for more than is left of
\* the token has just been refused.
C12_Witness ==
    /\ reserve.last.op = "open"
    /\ ~reserve.last.result.ok
    /\ AllOrders(reserve.account.orders) /= <<>>

\* An open request was accepted and the next request cancelled that order.
OpenThenCancel ==
    /\ reserve.prev.op = "open"
    /\ reserve.prev.result.ok
    /\ reserve.last.op = "cancel"
    /\ reserve.last.request.state.id = reserve.prev.result.order.state.id

\* C13: opening an order and cancelling it next gives every token the total
\* and available it had before the open, and the books hold what they held
\* before the open, the order not among it.
C13_OpenCancelRoundTrip ==
    OpenThenCancel =>
        /\ reserve.last.result.ok
        /\ AccountTimeless(reserve.account).balances
              = AccountTimeless(reserve.prev.before).balances
        /\ reserve.account.orders = reserve.prev.before.orders
        /\ \A i \in DOMAIN AllOrders(reserve.account.orders) :
              AllOrders(reserve.account.orders)[i].state.id
                 /= reserve.last.request.state.id

\* C13 witness: the round trip was made beside another resting order, and
\* only the time stamp of the balance it touched has moved.
C13_Witness ==
    /\ OpenThenCancel
    /\ AllOrders(reserve.account.orders) /= <<>>
    /\ reserve.account.balances /= reserve.prev.before.balances

\* --------------------------------------------- claims about matching
\* The fill events among the events of a call.
FillEvents(events) ==
    SelectSeq(events, LAMBDA e : e.kind \in {"OrdersFilled", "OrdersPartiallyFilled"})

\* The side of the book a public trade walks.
BookWalked(acct, trade) ==
    IF trade.side = "Buy" THEN acct.orders.asks ELSE acct.orders.bids

\* The orders of a book with the id.
WithId(book, id) == SelectSeq(book, LAMBDA o : o.state.id = id)

\* The trade price crosses the order price.
Crosses(trade, order) ==
    IF trade.side = "Buy" THEN trade.price >= order.state.price
                          ELSE trade.price <= order.state.price

\* C18: a fill event comes only from a public trade, for an order that
\* rested on the side the trade walks, and only if the trade price crosses
\* the price of that order: >= an ask for a buy, <= a bid for a sell.
C18_FillsOnlyWhenCrossing ==
    LET c == reserve.last
        fills == FillEvents(c.events) IN
    /\ c.op /= "trade" => fills = <<>>
    /\ c.op = "trade" =>
          \A n \in DOMAIN fills :
             LET found == WithId(BookWalked(c.before, c.trade), fills[n].state.id) IN
             /\ Len(found) = 1
             /\ Crosses(c.trade, found[1])

\* C18 witness: a trade filled an order and left on the side it walked an
\* order its price does not cross.
C18_Witness ==
    LET c == reserve.last
        left == BookWalked(reserve.account, c.trade) IN
    /\ c.op = "trade"
    /\ FillEvents(c.events) /= <<>>
    /\ \E n \in DOMAIN left : ~Crosses(c.trade, left[n])

\* C19: a fill of all that remained of the order is reported OrdersFilled
\* and the order has left the book; a fill of less is reported
\* OrdersPartiallyFilled and the order is still in the book.
C19_FillKindMatchesRemaining ==
    LET c == reserve.last
        fills == FillEvents(c.events) IN
    c.op = "trade" =>
        \A n \in DOMAIN fills :
           LET id == fills[n].state.id
               found == WithId(AllOrders(c.before.orders), id)
               remaining == found[1].state.size - found[1].state.filled_quantity
               stays == WithId(AllOrders(reserve.account.orders), id) /= <<>> IN
           /\ found /= <<>>
           /\ fills[n].state.size <= remaining
           /\ fills[n].state.size = remaining
                 => (fills[n].kind = "OrdersFilled" /\ ~stays)
           /\ fills[n].state.size < remaining
                 => (fills[n].kind = "OrdersPartiallyFilled" /\ stays)

\* C19 witness: a trade took the rest of an order an earlier trade had
\* filled in part.
C19_Witness ==
    LET c == reserve.last
        fills == FillEvents(c.events) IN
    /\ c.op = "trade"
    /\ \E n \in DOMAIN fills :
          /\ fills[n].kind = "OrdersFilled"
          /\ \E m \in DOMAIN AllOrders(c.before.orders) :
                /\ AllOrders(c.before.orders)[m].state.id = fills[n].state.id
                /\ AllOrders(c.before.orders)[m].state.filled_quantity > 0

\* C20: an id reported in OrdersCancelled or OrdersFilled is in neither
\* book from then on, and fetch_orders_open does not return it.
C20_ClosedOrdersGone ==
    \A id \in reserve.closed :
        /\ WithId(AllOrders(reserve.account.orders), id) = <<>>
        /\ WithId(AccountFetchOrdersOpen(reserve.account).reply.body, id) = <<>>

\* C20 witness: one order has been cancelled, the other has just been
\* filled in full.
C20_Witness ==
    /\ Cardinality(reserve.closed) = 2
    /\ reserve.last.op = "trade"
    /\ \E n \in DOMAIN reserve.last.events : reserve.last.events[n].kind = "OrdersFilled"
    /\ \E id \in reserve.closed :
          \A n \in DOMAIN reserve.last.events :
             reserve.last.events[n].kind = "OrdersFilled"
                => reserve.last.events[n].state.id /= id

\* ------------------------------------ an account under FillOrKill requests
\* FillOrKill requests of either side, for as much as and for more than the
\* resting orders hold at their price.
FillOrKillRequests ==
    {OrderRequestOpen(1, side, "FillOrKill", price, size) :
        side \in Sides, price \in 1..2, size \in 1..2}

\* One open request of any kind reaches the account.
ProcessOpen(request, now) ==
    LET r == ProcessRequestOpen(reserve.account, request, now) IN
    /\ reserve.account.order_counter < MaxOrders + 1
    /\ reserve' = [reserve EXCEPT
                     !.account = r.account,
                     !.last = [op |-> "open", request |-> request, trade |-> NoTrade,
                               before |-> reserve.account, result |-> r.result,
                               events |-> r.events],
                     !.prev = reserve.last,
                     !.closed = @ \cup ClosedIds(r.events)]

NextFillOrKill ==
    \/ \E request \in OrderRequests :
          ProcessOpen(request, 0)
          /\ UNCHANGED <<balVars, bldVars, exVars, posVars, idVars, rpVars, lkVars>>
    \/ \E request \in FillOrKillRequests :
          ProcessOpen(request, 0)
          /\ UNCHANGED <<balVars, bldVars, exVars, posVars, idVars, rpVars, lkVars>>

SpecFillOrKill == InitMatch /\ [][NextFillOrKill]_vars

\* ------------------------------------------ claims about FillOrKill
\* The last request was FillOrKill and the book could not fill its size.
FillOrKillShort ==
    LET c == reserve.last IN
    /\ c.op = "open"
    /\ c.request.state.kind = "FillOrKill"
    /\ FillableNow(OppositeBook(c.before, c.request.side), c.request.side,
                   c.request.state.price) < c.request.state.size

\* C21: a FillOrKill request the book cannot fill in full at once gets an
\* error and changes nothing: the account (balances, books, positions) is
\* as before and no event is pushed.
C21_FillOrKillAllOrNothing ==
    FillOrKillShort =>
        /\ ~reserve.last.result.ok
        /\ reserve.account = reserve.last.before
        /\ reserve.last.events = <<>>

\* C21 witness: a FillOrKill request was refused although its price
\* crosses a resting order, which holds less than the request asks for.
C21_Witness ==
    /\ FillOrKillShort
    /\ ~reserve.last.result.ok
    /\ FillableNow(OppositeBook(reserve.last.before, reserve.last.request.side),
                   reserve.last.request.side, reserve.last.request.state.price) > 0

\* ------------------------------------------------------------- order ids
MaxTimestamp == 2
MaxMachine == 1
MaxCounter == 4

\* new_order_id: (timestamp_ms, machine_id, counter) composed into one
\* number, the timestamp in the high field and the counter in the low one.
ComposeOrderId(timestamp_ms, machine_id, counter) ==
    (timestamp_ms * (MaxMachine + 1) + machine_id) * (MaxCounter + 1) + counter

\* Display for an unsigned number: its decimal digits, the first one first.
RECURSIVE DisplayU64(_)
DisplayU64(n) == IF n < 10 THEN <<n>> ELSE DisplayU64(n \div 10) \o <<n % 10>>

\* From<Id: Display> for OrderId: the id is the String id.to_string().
OrderIdFrom(id) == DisplayU64(id)

\* Ord for String: byte by byte, a proper prefix being the lesser.
RECURSIVE StringCmp(_, _)
StringCmp(a, b) ==
    IF a = <<>> /\ b = <<>> THEN "Equal"
    ELSE IF a = <<>> THEN "Less"
    ELSE IF b = <<>> THEN "Greater"
    ELSE IF Head(a) < Head(b) THEN "Less"
    ELSE IF Head(a) > Head(b) THEN "Greater"
    ELSE StringCmp(Tail(a), Tail(b))

\* The derived Ord of OrderId(pub String).
OrderIdCmp(a, b) == StringCmp(a, b)

\* An order ledger of one machine_id, before its first order.
InitOrderIds ==
    /\ IdleBalance /\ IdleBuilder /\ IdleExchange /\ IdlePositions /\ IdleReserve
    /\ IdleReplay /\ IdleLocks
    /\ \E machine_id \in 0..MaxMachine :
          order_ids = [NoOrderIds EXCEPT !.machine_id = machine_id]

\* One order is accepted at exchange time timestamp_ms, which does not run
\* backwards; the counter stays within its field.
NewOrderId(timestamp_ms) ==
    /\ timestamp_ms >= order_ids.timestamp
    /\ order_ids.counter <= MaxCounter
    /\ order_ids' =
          [order_ids EXCEPT
             !.timestamp = timestamp_ms,
             !.counter = @ + 1,
             !.assigned = Append(@, OrderIdFrom(ComposeOrderId(timestamp_ms,
                                                               order_ids.machine_id,
                                                               order_ids.counter)))]

NextOrderIds ==
    \E timestamp_ms \in 0..MaxTimestamp :
       NewOrderId(timestamp_ms)
       /\ UNCHANGED <<balVars, bldVars, exVars, posVars, resVars, rpVars, lkVars>>

SpecOrderIds == InitOrderIds /\ [][NextOrderIds]_vars

\* C22 as stated: every OrderId assigned is strictly greater, in the order
\* of OrderId, than every OrderId assigned before it; so no two are equal.
C22_OrderIdsStrictlyIncrease ==
    \A i, j \in DOMAIN order_ids.assigned :
        i < j => OrderIdCmp(order_ids.assigned[i], order_ids.assigned[j]) = "Less"

\* ------------------------------------------ claims about filled_quantity
\* The open orders of the account under requests and trades.
OpenOrdersNow == AllOrders(reserve.account.orders)

\* Every open order has filled between nothing and its size.
FilledWithinSize ==
    \A n \in DOMAIN OpenOrdersNow :
        /\ OpenOrdersNow[n].state.filled_quantity >= 0
        /\ OpenOrdersNow[n].state.filled_quantity <= OpenOrdersNow[n].state.size
        /\ OpenOrdersNow[n].state.size - OpenOrdersNow[n].state.filled_quantity >= 0

\* An order that enters the books has filled nothing; one that stays has
\* not filled less than before.
FilledGrows ==
    LET after == AllOrders(reserve'.account.orders) IN
    \A n \in DOMAIN after :
        LET was == WithId(OpenOrdersNow, after[n].state.id) IN
        IF was = <<>>
        THEN after[n].state.filled_quantity = 0
        ELSE after[n].state.filled_quantity >= was[1].state.filled_quantity

\* C23: filled_quantity of an open order is 0 when the order is made from
\* its request, never decreases while the order lives and never exceeds
\* size, so remaining_quantity = size - filled_quantity is never negative.
C23_FilledQuantityMonotone == [](FilledWithinSize) /\ [][FilledGrows]_vars

\* C23 witness: an order rests with part of its size filled.
C23_Witness ==
    \E n \in DOMAIN OpenOrdersNow :
        /\ OpenOrdersNow[n].state.filled_quantity > 0
        /\ OpenOrdersNow[n].state.filled_quantity < OpenOrdersNow[n].state.size

\* ------------------------------------------- a book under opens and trades
\* Limit requests and public trades of either side at two prices and two
\* sizes, so that orders of one side meet at equal and at different prices.
BookRequests ==
    {OrderRequestOpen(1, side, "Limit", price, size) :
        side \in Sides, price \in 1..2, size \in 1..2}

BookTrades ==
    {[side |-> side, price |-> price, amount |-> amount] :
        side \in Sides, price \in 1..2, amount \in 1..2}

InitBook ==
    /\ IdleBalance /\ IdleBuilder /\ IdleExchange /\ IdlePositions
    /\ IdleIds /\ IdleReplay /\ IdleLocks
    /\ reserve = [account |-> AccountNew([quote |-> MaxStart + 1, base |-> MaxStart], 0),
                  leverage |-> 1, last |-> NoOrderCall, prev |-> NoOrderCall,
                  closed |-> {}]

NextBook ==
    \/ \E request \in BookRequests :
          OpenOrder(request, 0)
          /\ UNCHANGED <<balVars, bldVars, exVars, posVars, idVars, rpVars, lkVars>>
    \/ \E trade \in BookTrades :
          MatchTrade(trade, 0)
          /\ UNCHANGED <<balVars, bldVars, exVars, posVars, idVars, rpVars, lkVars>>

SpecBook == InitBook /\ [][NextBook]_vars

\* ----------------------------------------------- claims about the book
\* The remaining quantity of an open order, as the claims read it.
RemainingOf(order) == order.state.size - order.state.filled_quantity

\* x ranks as better than y.
RanksAbove(x, y) == OrderPartialCmp(x, y) = "Greater" /\ OrderPartialCmp(y, x) = "Less"

\* The last call was a trade that filled an order; FirstFilled is the order
\* it filled first, as it rested, and Walked the side of the book it met.
TradeFilled ==
    reserve.last.op = "trade" /\ FillEvents(reserve.last.events) /= <<>>

Walked == BookWalked(reserve.last.before, reserve.last.trade)

FirstFilled == WithId(Walked, FillEvents(reserve.last.events)[1].state.id)[1]

\* C24: of two open buy orders the one with the strictly higher price ranks
\* as better, of two open sell orders the one with the strictly lower
\* price, whatever their remaining quantities; a trade fills first the
\* highest-priced bid or the lowest-priced ask.
C24_PricePriority ==
    LET bids == reserve.account.orders.bids
        asks == reserve.account.orders.asks IN
    /\ \A m, n \in DOMAIN bids :
          bids[m].state.price > bids[n].state.price => RanksAbove(bids[m], bids[n])
    /\ \A m, n \in DOMAIN asks :
          asks[m].state.price < asks[n].state.price => RanksAbove(asks[m], asks[n])
    /\ TradeFilled =>
          \A n \in DOMAIN Walked :
             IF reserve.last.trade.side = "Sell"
             THEN FirstFilled.state.price >= Walked[n].state.price
             ELSE FirstFilled.state.price <= Walked[n].state.price

\* C24 witness: a trade filled the better-priced of two orders of a side,
\* the two differing in remaining quantity.
C24_Witness ==
    /\ TradeFilled
    /\ \E n \in DOMAIN Walked :
          /\ Walked[n].state.price /= FirstFilled.state.price
          /\ RemainingOf(Walked[n]) /= RemainingOf(FirstFilled)

\* C25 as stated: on both sides, of two orders at the same price the one
\* with the smaller remaining quantity ranks above the other and is the
\* one a trade fills first.
C25_SmallerRemainingFirst ==
    LET both == AllOrders(reserve.account.orders) IN
    /\ \A m, n \in DOMAIN both :
          (/\ both[m].side = both[n].side
           /\ both[m].state.price = both[n].state.price
           /\ RemainingOf(both[m]) < RemainingOf(both[n]))
             => RanksAbove(both[m], both[n])
    /\ TradeFilled =>
          \A n \in DOMAIN Walked :
             Walked[n].state.price = FirstFilled.state.price
                => RemainingOf(FirstFilled) <= RemainingOf(Walked[n])

\* ---------------------------------- claims about unsupported instruments
\* The kinds of instrument has_long_position and has_short_position have an
\* arm for.
QueriedKinds == {"Perpetual", "Future", "CryptoOption", "CryptoLeveragedToken"}

\* C26 as stated: a query about an instrument of a kind without an arm, and
\* an update with an Option position, return to the caller with an
\* UnsupportedInstrument error and leave every map as it was.
C26_UnsupportedInstrumentError ==
    /\ (posLog.call = "query" /\ posLog.instrument.kind \notin QueriedKinds) =>
          /\ posLog.long.result = "UnsupportedInstrument"
          /\ posLog.short.result = "UnsupportedInstrument"
          /\ account_positions = posLog.before
    /\ (posLog.call = "update" /\ posLog.position.kind = "Option") =>
          /\ posLog.result = "UnsupportedInstrument"
          /\ account_positions = posLog.before

\* --------------------------------------------------- claims about cancel
\* The ids of the orders in the books of an account.
OpenIds(acct) ==
    {AllOrders(acct.orders)[n].state.id : n \in DOMAIN AllOrders(acct.orders)}

\* The reply of cancel_orders to a batch of two ids on the account as it is.
CancelBoth(first, second) ==
    AccountCancelOrders(reserve.account,
                        <<OrderRequestCancel(first), OrderRequestCancel(second)>>,
                        0).reply.body

\* C27: a cancel of an id that is in no book (never issued, cancelled or
\* filled in full before) returns OrderNotFound and leaves balances, books
\* and positions as they were; in a batch the error stands at the position
\* of its request; the same id cancelled twice succeeds once, then fails.
C27_CancelUnknownIdNotFound ==
    LET c == reserve.last IN
    /\ (c.op = "cancel" /\ c.request.state.id \notin OpenIds(c.before)) =>
          /\ c.result = Err("OrderNotFound")
          /\ reserve.account = c.before
          /\ c.events = <<>>
    /\ (c.op = "cancel" /\ c.request.state.id \in OpenIds(c.before)) =>
          /\ c.result.ok
          /\ c.request.state.id \notin OpenIds(reserve.account)
    /\ \A id \in 1..MaxOrders, other \in 1..MaxOrders :
          /\ id \in OpenIds(reserve.account) =>
                /\ CancelBoth(id, id)[1].ok
                /\ CancelBoth(id, id)[2] = Err("OrderNotFound")
          /\ (id \notin OpenIds(reserve.account) /\ other \in OpenIds(reserve.account)) =>
                /\ CancelBoth(id, other)[1] = Err("OrderNotFound")
                /\ CancelBoth(id, other)[2].ok

\* C27 witness: an order was cancelled and the cancel of the same id that
\* came next failed, beside an order that was filled in full before.
C27_Witness ==
    /\ reserve.prev.op = "cancel"
    /\ reserve.prev.result.ok
    /\ reserve.last.op = "cancel"
    /\ reserve.last.request.state.id = reserve.prev.request.state.id
    /\ reserve.last.result = Err("OrderNotFound")
    /\ Cardinality(reserve.closed) = 2

\* ------------------------------------------- the historical-data replay
\* Bounds of the store: the dates of the range, the rows of one table, the
\* timestamps one date spans, the page sizes and the room of the channel.
MaxDates == 2
MaxRows == 3
DayLength == 2
MaxBatchSize == 2
MaxBuffer == 1

\* The date range [from, to] of a replay.
Dates == 1..MaxDates

\* The rows a table of one date can hold, in the order they were inserted:
\* a row is told apart by its symbol, and its timestamp lies in its date.
RowSeqs(date) ==
    UNION {{[k \in 1..n |-> [symbol |-> k, timestamp |-> date * DayLength + f[k]]] :
               f \in [1..n -> 0..(DayLength - 1)]} : n \in 0..MaxRows}

\* The tables of one date: present, or missing from the database.
Tables(date) ==
    {[fault |-> "None", rows |-> r] : r \in RowSeqs(date)}
        \cup {[fault |-> "Missing", rows |-> <<>>]}

\* The date a timestamp lies in.
DateOf(timestamp) == timestamp \div DayLength

\* ORDER BY timestamp [ASC|DESC]: rows of equal timestamp keep their order.
InsertRow(sorted, row, direction) ==
    LET ahead == {i \in DOMAIN sorted :
                     IF direction = "ASC"
                     THEN sorted[i].timestamp <= row.timestamp
                     ELSE sorted[i].timestamp >= row.timestamp}
        p == Cardinality(ahead)
    IN SubSeq(sorted, 1, p) \o <<row>> \o SubSeq(sorted, p + 1, Len(sorted))

RECURSIVE OrderByTimestamp(_, _)
OrderByTimestamp(rows, direction) ==
    IF rows = <<>> THEN <<>>
    ELSE InsertRow(OrderByTimestamp(Front(rows), direction), Last(rows), direction)

\* SELECT ... ORDER BY timestamp LIMIT limit OFFSET offset.
SelectPage(table, limit, offset) ==
    LET all == OrderByTimestamp(table.rows, "ASC")
    IN SubSeq(all, offset + 1, Min(offset + limit, Len(all)))

\* A page that ends a date although it is full.
ShortPageOrFull(page, batch_size) == Len(page) <= batch_size

\* The page that ends a date: one shorter than batch_size.
ShortPage(page, batch_size) == Len(page) < batch_size

\* The batched reader after it was called for the range, and the consumer
\* of the example before its first recv.
BatchedReader(store, batch_size) ==
    [mode |-> "batched", store |-> store, batch_size |-> batch_size,
     date |-> 1, n |-> 0, page |-> <<>>, short |-> FALSE, producer |-> "query",
     pages |-> <<>>, errors |-> <<>>, pushed |-> <<>>,
     channel |-> <<>>, closed |-> FALSE,
     consumer |-> "recv", forwarded |-> <<>>]

InitBatched ==
    /\ \E store \in [Dates -> UNION {Tables(d) : d \in Dates}],
          batch_size \in 1..MaxBatchSize :
          /\ \A d \in Dates : store[d] \in Tables(d)
          /\ replay = BatchedReader(store, batch_size)
    /\ IdleBalance /\ IdleBuilder /\ IdleExchange /\ IdlePositions
    /\ IdleReserve /\ IdleIds /\ IdleLocks

\* The reader is done with a date: the next date, or the end of the range,
\* where the sender is dropped and the channel closes.
NextDate(reader) ==
    IF reader.date = MaxDates
    THEN [reader EXCEPT !.producer = "done", !.closed = TRUE, !.page = <<>>]
    ELSE [reader EXCEPT !.date = @ + 1, !.n = 0, !.page = <<>>,
                        !.short = FALSE, !.producer = "query"]

\* The reader is done with a page: the next page, or the next date after a
\* short page.
NextPage(reader) ==
    IF reader.short THEN NextDate(reader)
    ELSE [reader EXCEPT !.n = @ + 1, !.producer = "query"]

\* One query of the reader: LIMIT batch_size OFFSET n * batch_size on the
\* table of the date; a missing table is an error for that date.
BatchedQuery ==
    /\ replay.mode = "batched"
    /\ replay.producer = "query"
    /\ LET table == replay.store[replay.date]
           offset == replay.n * replay.batch_size
           page == SelectPage(table, replay.batch_size, offset)
           asked == [replay EXCEPT
                        !.pages = Append(@, [date |-> replay.date,
                                             offset |-> offset,
                                             rows |-> Len(page)]),
                        !.page = page,
                        !.short = ShortPage(page, replay.batch_size),
                        !.producer = "push"]
       IN replay' =
            IF table.fault = "Missing"
            THEN NextDate([replay EXCEPT !.errors = Append(@, replay.date)])
            ELSE IF page = <<>> THEN NextPage(asked) ELSE asked
    /\ UNCHANGED <<balVars, bldVars, exVars, posVars, resVars, idVars, lkVars>>

\* The reader pushes the next event of its page once the channel has room.
BatchedPush ==
    /\ replay.mode = "batched"
    /\ replay.producer = "push"
    /\ Len(replay.channel) < MaxBuffer
    /\ LET sent == [replay EXCEPT !.channel = Append(@, Head(replay.page)),
                                  !.pushed = Append(@, Head(replay.page)),
                                  !.page = Tail(@)]
       IN replay' = IF sent.page = <<>> THEN NextPage(sent) ELSE sent
    /\ UNCHANGED <<balVars, bldVars, exVars, posVars, resVars, idVars, lkVars>>

\* The consumer of the example: recv yields an event, which it sends on to
\* the stream it added to the account.
ConsumerRecv ==
    /\ replay.mode = "batched"
    /\ replay.consumer = "recv"
    /\ replay.channel # <<>>
    /\ replay' = [replay EXCEPT !.channel = Tail(@),
                                !.forwarded = Append(@, Head(replay.channel))]
    /\ UNCHANGED <<balVars, bldVars, exVars, posVars, resVars, idVars, lkVars>>

\* recv yields None on the closed and empty channel: the loop ends.
ConsumerFinished ==
    /\ replay.mode = "batched"
    /\ replay.consumer = "recv"
    /\ replay.channel = <<>>
    /\ replay.closed
    /\ replay' = [replay EXCEPT !.consumer = "finished"]
    /\ UNCHANGED <<balVars, bldVars, exVars, posVars, resVars, idVars, lkVars>>

NextBatched ==
    \/ BatchedQuery
    \/ BatchedPush
    \/ ConsumerRecv
    \/ ConsumerFinished

SpecBatched == InitBatched /\ [][NextBatched]_vars

\* ENABLED NextBatched: the reader can query or push, or the consumer's recv
\* can return.
BatchedEnabled ==
    /\ replay.mode = "batched"
    /\ \/ replay.producer = "query"
       \/ replay.producer = "push" /\ Len(replay.channel) < MaxBuffer
       \/ replay.consumer = "recv" /\ (replay.channel # <<>> \/ replay.closed)

BatchedEnabledIsEnabled == BatchedEnabled <=> ENABLED NextBatched

\* The producing task and the consuming loop are polled whenever one of them
\* can make a step: weak fairness of NextBatched, every step of which
\* changes replay.
FairSpecBatched == SpecBatched /\ ([]<>(~BatchedEnabled) \/ []<><<TRUE>>_replay)

\* ------------------------------------------- claims about the batched reader
\* The pages the reader asked for on one date, and the events it pushed
\* that lie in that date.
PagesOf(date) == SelectSeq(replay.pages, LAMBDA p : p.date = date)
PushedOf(date) == SelectSeq(replay.pushed, LAMBDA e : DateOf(e.timestamp) = date)

\* The reader has left the date behind.
DateDone(date) == date < replay.date \/ replay.producer = "done"

\* The rows of a table in table order.
TableOrder(date) == OrderByTimestamp(replay.store[date].rows, "ASC")

IsPrefixOf(s, t) == Len(s) <= Len(t) /\ s = SubSeq(t, 1, Len(s))

\* The pages of a date are asked at offsets 0, B, 2B, ...; every page but the
\* last one is full; the events pushed for the date are a prefix of its
\* table; once the date is done the last page is short, N \div B + 1 pages
\* were asked and the N rows were pushed once each in table order; the
\* channel closes only after the last date.
BatchedPagesExact ==
    LET B == replay.batch_size IN
    /\ \A d \in Dates :
          /\ \A i \in DOMAIN PagesOf(d) :
                /\ PagesOf(d)[i].offset = (i - 1) * B
                /\ i < Len(PagesOf(d)) => PagesOf(d)[i].rows = B
          /\ IsPrefixOf(PushedOf(d), TableOrder(d))
          /\ (DateDone(d) /\ replay.store[d].fault = "None") =>
                /\ Len(PagesOf(d)) = (Len(replay.store[d].rows) \div B) + 1
                /\ Last(PagesOf(d)).rows < B
                /\ PushedOf(d) = TableOrder(d)
                /\ Len(PushedOf(d)) = Len(replay.store[d].rows)
          /\ d > replay.date => PagesOf(d) = <<>> /\ PushedOf(d) = <<>>
    /\ replay.closed => replay.producer = "done" /\ replay.date = MaxDates
    /\ replay.producer = "done" => replay.closed

\* C28: for a table of N rows and a batch size B >= 1 the batched reader
\* pushes exactly the N rows, once each and in table order, with pages at
\* offsets 0, B, 2B, ... up to the first page shorter than B (an empty one
\* when B divides N), goes on to the next date, closes the channel after
\* the last date, and so always terminates.
C28_BatchedReaderPushesAllAndEnds ==
    /\ []BatchedPagesExact
    /\ <>[](replay.producer = "done" /\ replay.closed)

\* C28 witness: the reader is done with a range whose first table holds as
\* many rows as one page, so that an empty page ended its date, and whose
\* second table holds more than one page.
C28_Witness ==
    /\ replay.mode = "batched"
    /\ replay.producer = "done"
    /\ replay.closed
    /\ replay.batch_size = MaxBatchSize
    /\ Len(replay.store[1].rows) = MaxBatchSize
    /\ Len(PagesOf(1)) = 2
    /\ Last(PagesOf(1)).rows = 0
    /\ Len(replay.store[MaxDates].rows) > MaxBatchSize
    /\ Len(replay.pushed) > MaxBatchSize + MaxBatchSize

\* ------------------------------------------------- the cursor replay
\* The tables a cursor can be opened on: present, missing, or present with
\* a query that fails while its rows are being fetched.
CursorTables(date) ==
    Tables(date) \cup {[fault |-> "Query", rows |-> r] : r \in RowSeqs(date)}

\* The rows a cursor over the union view of a date yields, the other way
\* round.
CursorRowsDescending(table) == OrderByTimestamp(table.rows, "DESC")

\* The rows a cursor over the union view of a date yields.
CursorRows(table) == OrderByTimestamp(table.rows, "ASC")

\* The rows the cursor of the by-row example yields.
ByRowRows(table) == OrderByTimestamp(table.rows, "DESC")

\* main of the cursor stream before its loop, and main of the by-row example
\* before its query.
CursorStream(store) ==
    [mode |-> "cursor", store |-> store, current_date |-> 1, task |-> "loop",
     cursor |-> <<>>, channel |-> <<>>, queried |-> <<>>, errors |-> <<>>,
     delivered |-> <<>>]

ByRow(table) ==
    [mode |-> "by_row", store |-> [d \in {1} |-> table], current_date |-> 1,
     task |-> "query", cursor |-> <<>>, channel |-> <<>>, queried |-> <<>>,
     errors |-> <<>>, delivered |-> <<>>]

InitCursor ==
    /\ \/ \E store \in [Dates -> UNION {CursorTables(d) : d \in Dates}] :
             /\ \A d \in Dates : store[d] \in CursorTables(d)
             /\ replay = CursorStream(store)
       \/ \E table \in CursorTables(1) : replay = ByRow(table)
    /\ IdleBalance /\ IdleBuilder /\ IdleExchange /\ IdlePositions
    /\ IdleReserve /\ IdleIds /\ IdleLocks

\* current_date += 1 day: the channel and the cursor of the date are gone.
NextDay(reader) ==
    [reader EXCEPT !.current_date = @ + 1, !.task = "loop",
                   !.cursor = <<>>, !.channel = <<>>]

\* An error that ends the whole loop.
SurfaceErrorAndReturn(reader) ==
    [reader EXCEPT !.errors = Append(@, reader.current_date), !.task = "done"]

\* An error is written for the date and the loop goes on with the next day.
SurfaceError(reader) ==
    NextDay([reader EXCEPT !.errors = Append(@, reader.current_date)])

\* One turn of the while loop up to the spawn of the cursor task: the cursor
\* of the date is asked for; a missing table is the Err arm.
CursorOpen ==
    /\ replay.mode = "cursor"
    /\ replay.task = "loop"
    /\ replay.current_date <= MaxDates
    /\ LET table == replay.store[replay.current_date]
           asked == [replay EXCEPT !.queried = Append(@, replay.current_date)]
       IN replay' =
            IF table.fault = "Missing"
            THEN SurfaceError(asked)
            ELSE [asked EXCEPT !.cursor = CursorRows(table),
                               !.channel = <<>>, !.task = "cursor"]
    /\ UNCHANGED <<balVars, bldVars, exVars, posVars, resVars, idVars, lkVars>>

\* cursor.next() is Ok(Some(trade)): the trade is printed and sent; the
\* receiver is alive until the arm ends, so the send succeeds.
CursorYields ==
    /\ replay.mode = "cursor"
    /\ replay.task = "cursor"
    /\ replay.cursor # <<>>
    /\ replay' = [replay EXCEPT !.delivered = Append(@, Head(replay.cursor)),
                                !.channel = Append(@, Head(replay.cursor)),
                                !.cursor = Tail(@)]
    /\ UNCHANGED <<balVars, bldVars, exVars, posVars, resVars, idVars, lkVars>>

\* cursor.next() is Ok(None): the task ends, main awaits it and goes on.
CursorComplete ==
    /\ replay.mode = "cursor"
    /\ replay.task = "cursor"
    /\ replay.cursor = <<>>
    /\ replay.store[replay.current_date].fault = "None"
    /\ replay' = NextDay(replay)
    /\ UNCHANGED <<balVars, bldVars, exVars, posVars, resVars, idVars, lkVars>>

\* cursor.next() is Err: the task writes its message and ends, main awaits
\* it and goes on.
CursorFails ==
    /\ replay.mode = "cursor"
    /\ replay.task = "cursor"
    /\ replay.store[replay.current_date].fault = "Query"
    /\ replay' = SurfaceError(replay)
    /\ UNCHANGED <<balVars, bldVars, exVars, posVars, resVars, idVars, lkVars>>

\* The while condition fails: main returns.
CursorLoopEnds ==
    /\ replay.mode = "cursor"
    /\ replay.task = "loop"
    /\ replay.current_date > MaxDates
    /\ replay' = [replay EXCEPT !.task = "done"]
    /\ UNCHANGED <<balVars, bldVars, exVars, posVars, resVars, idVars, lkVars>>

\* The by-row example builds its query and fetches the cursor.
ByRowQuery ==
    /\ replay.mode = "by_row"
    /\ replay.task = "query"
    /\ replay' = [replay EXCEPT !.queried = Append(@, 1),
                                !.cursor = IF replay.store[1].fault = "Missing"
                                           THEN <<>>
                                           ELSE ByRowRows(replay.store[1]),
                                !.task = "cursor"]
    /\ UNCHANGED <<balVars, bldVars, exVars, posVars, resVars, idVars, lkVars>>

\* while let Ok(Some(row)) = cursor.next(): the row is printed.
ByRowYields ==
    /\ replay.mode = "by_row"
    /\ replay.task = "cursor"
    /\ replay.cursor # <<>>
    /\ replay' = [replay EXCEPT !.delivered = Append(@, Head(replay.cursor)),
                                !.cursor = Tail(@)]
    /\ UNCHANGED <<balVars, bldVars, exVars, posVars, resVars, idVars, lkVars>>

\* cursor.next() is Ok(None) or Err: the while let ends without a word.
ByRowEnds ==
    /\ replay.mode = "by_row"
    /\ replay.task = "cursor"
    /\ replay.cursor = <<>> \/ replay.store[1].fault # "None"
    /\ replay' = [replay EXCEPT !.task = "done", !.cursor = <<>>]
    /\ UNCHANGED <<balVars, bldVars, exVars, posVars, resVars, idVars, lkVars>>

NextCursor ==
    \/ CursorOpen
    \/ CursorYields
    \/ CursorComplete
    \/ CursorFails
    \/ CursorLoopEnds
    \/ ByRowQuery
    \/ ByRowYields
    \/ ByRowEnds

SpecCursor == InitCursor /\ [][NextCursor]_vars

\* -------------------------------------------- claims about the cursor replay
\* The events delivered so far that lie in a date.
DeliveredOf(date) ==
    SelectSeq(replay.delivered, LAMBDA e : DateOf(e.timestamp) = date)

\* Within a date the delivered events are non-decreasing in timestamp, and
\* no event of a later date comes before an event of an earlier date.
DeliveredAscending ==
    \A i \in DOMAIN replay.delivered, j \in DOMAIN replay.delivered :
        i < j =>
          /\ DateOf(replay.delivered[i].timestamp)
                <= DateOf(replay.delivered[j].timestamp)
          /\ replay.delivered[i].timestamp <= replay.delivered[j].timestamp

\* C29 as stated: whatever the replay delivers reaches the consumer in
\* non-decreasing timestamp order within a date and date after date.
C29_AllDeliveriesAscending == DeliveredAscending

\* C29, amended: the cursor stream over the dated union views delivers its
\* events in non-decreasing timestamp order within a date and every event
\* of an earlier date before every event of a later date.
C29_CursorStreamAscending ==
    replay.mode = "cursor" => DeliveredAscending

\* C29 witness: the cursor stream has delivered two dates, the first with
\* rows that were inserted in descending timestamp order.
C29_Witness ==
    /\ replay.mode = "cursor"
    /\ replay.task = "done"
    /\ Len(replay.store[1].rows) >= 2
    /\ replay.store[1].rows[1].timestamp > replay.store[1].rows[2].timestamp
    /\ Len(DeliveredOf(1)) = Len(replay.store[1].rows)
    /\ DeliveredOf(MaxDates) # <<>>

\* C30: when the table of a date is missing or its query fails, one error
\* is surfaced for that date and for no other, and the loop goes on: every
\* date of the range is still queried, in order, and every date whose table
\* is sound has all its trades delivered.
C30_ErrorKeepsLoopGoing ==
    replay.mode = "cursor" =>
      /\ \A i \in DOMAIN replay.errors :
            /\ replay.store[replay.errors[i]].fault # "None"
            /\ \A j \in DOMAIN replay.errors : replay.errors[i] = replay.errors[j] => i = j
      /\ \A d \in Dates :
            /\ d < replay.current_date =>
                  /\ \E i \in DOMAIN replay.queried : replay.queried[i] = d
                  /\ replay.store[d].fault # "None" =>
                        \E i \in DOMAIN replay.errors : replay.errors[i] = d
                  /\ replay.store[d].fault = "None" =>
                        DeliveredOf(d) = CursorRows(replay.store[d])
      /\ \A i \in DOMAIN replay.queried : replay.queried[i] = i
      /\ replay.task = "done" => replay.current_date = MaxDates + 1

\* C30 witness: the first date of the range had no table, the loop is over,
\* and the rows of the last date were delivered.
C30_Witness ==
    /\ replay.mode = "cursor"
    /\ replay.task = "done"
    /\ replay.store[1].fault = "Missing"
    /\ replay.errors = <<1>>
    /\ Len(replay.store[MaxDates].rows) >= 2
    /\ DeliveredOf(MaxDates) = CursorRows(replay.store[MaxDates])

\* C31: the replay producer never holds more undelivered events than the
\* channel has room for; it waits for room.
C31_ProducerWithinCapacity ==
    replay.mode \in {"cursor", "batched"} => Len(replay.channel) <= MaxBuffer

\* ------------------------------ the locks of the position maps under load
\* The fields of AccountPositions in the order Serialize and eq visit them.
FieldOrder ==
    <<"margin_pos_long", "margin_pos_short", "perpetual_pos_long",
      "perpetual_pos_short", "futures_pos_long", "futures_pos_short",
      "option_pos_long_call", "option_pos_long_put", "option_pos_short_call",
      "option_pos_short_put">>

\* The positions another task passes to update_position meanwhile.
WriterPositions ==
    {PositionNew("Perpetual", [base |-> "BTC", quote |-> "USDT", kind |-> "Perpetual"],
                 side, 1000) : side \in Sides}
        \cup {PositionNew("Future", [base |-> "BTC", quote |-> "USDT", kind |-> "Future"],
                          "Buy", 1000)}

NoWriter == [state |-> "idle", map |-> "", position |-> NoPosition]

\* A thread about to serialise the AccountPositions or to compare it with
\* `other`, which is a clone of it (shared maps) or an empty one of its own;
\* beside it a task that calls update_position.
LocksStart(op, shared) ==
    [op |-> op, shared |-> shared, field |-> 1, held |-> "",
     snapshot |-> <<>>, result |-> "None",
     history |-> {AccountPositionsInit},
     writer |-> NoWriter, count |-> 0]

InitLocks ==
    /\ IdleBalance /\ IdleBuilder /\ IdleExchange /\ IdleReserve
    /\ IdleIds /\ IdleReplay
    /\ IdlePositions
    /\ \/ locks = LocksStart("serialize", FALSE)
       \/ \E shared \in BOOLEAN : locks = LocksStart("eq", shared)

\* A writer queued on the lock of a map: the lock is fair, so a read that
\* comes after it waits behind it.
WriterQueued(map) == locks.writer.state = "waiting" /\ locks.writer.map = map

\* blocking_read() on the lock of a map returns.
CanRead(map) == ~WriterQueued(map)

\* to_map of one field: blocking_read, clone, guard dropped.
SerializeField ==
    /\ locks.op = "serialize"
    /\ locks.field <= Len(FieldOrder)
    /\ CanRead(FieldOrder[locks.field])
    /\ locks' = [locks EXCEPT
                   !.snapshot = Append(@, account_positions[FieldOrder[locks.field]]),
                   !.field = @ + 1,
                   !.result = IF locks.field = Len(FieldOrder) THEN "Ok" ELSE @]
    /\ UNCHANGED <<balVars, bldVars, exVars, posVars, resVars, idVars, rpVars>>

\* hashmap_eq of one field, first half: a.blocking_read().
EqReadA ==
    /\ locks.op = "eq"
    /\ locks.field <= Len(FieldOrder)
    /\ locks.held = ""
    /\ CanRead(FieldOrder[locks.field])
    /\ locks' = [locks EXCEPT !.held = FieldOrder[locks.field]]
    /\ UNCHANGED <<balVars, bldVars, exVars, posVars, resVars, idVars, rpVars>>

\* hashmap_eq of one field, second half: b.blocking_read() while a_read is
\* held, the clones, the comparison; && goes on only on true.
EqReadB ==
    /\ locks.op = "eq"
    /\ locks.held # ""
    /\ locks.shared => CanRead(locks.held)
    /\ LET a_map == account_positions[locks.held]
           b_map == IF locks.shared THEN account_positions[locks.held] ELSE EmptyMap
           last == locks.field = Len(FieldOrder)
       IN locks' = [locks EXCEPT
                      !.held = "",
                      !.field = IF a_map = b_map THEN @ + 1 ELSE Len(FieldOrder) + 1,
                      !.result = IF a_map # b_map THEN "false"
                                 ELSE IF last THEN "true" ELSE @]
    /\ UNCHANGED <<balVars, bldVars, exVars, posVars, resVars, idVars, rpVars>>

\* update_position up to `write().await` on the map it picked.
WriterRequest(new_position) ==
    /\ locks.op # "None"
    /\ locks.writer.state = "idle"
    /\ locks.count < MaxUpdates
    /\ locks' = [locks EXCEPT
                   !.writer = [state |-> "waiting",
                               map |-> UpdatePositionMap(new_position),
                               position |-> new_position]]
    /\ UNCHANGED <<balVars, bldVars, exVars, posVars, resVars, idVars, rpVars>>

\* The write lock is granted once no read guard is left on the map: the
\* entry is replaced or inserted and the guard dropped.
WriterApply ==
    /\ locks.writer.state = "waiting"
    /\ locks.held # locks.writer.map
    /\ account_positions' = UpdatePosition(account_positions, locks.writer.position).positions
    /\ locks' = [locks EXCEPT !.writer = NoWriter, !.count = @ + 1,
                              !.history = @ \cup {account_positions'}]
    /\ UNCHANGED posLog
    /\ UNCHANGED <<balVars, bldVars, exVars, resVars, idVars, rpVars>>

NextLocks ==
    \/ SerializeField
    \/ EqReadA
    \/ EqReadB
    \/ \E new_position \in WriterPositions : WriterRequest(new_position)
    \/ WriterApply

SpecLocks == InitLocks /\ [][NextLocks]_vars

\* ------------------------------------------ claims about the map locks
\* The maps a finished serialisation wrote, as one AccountPositions value.
SnapshotValue ==
    [m \in MapNames |->
        locks.snapshot[CHOOSE i \in DOMAIN FieldOrder : FieldOrder[i] = m]]

\* C32: the ten maps of a serialisation snapshot are together one state the
\* AccountPositions was in, also with update_position calls in between.
C32_SnapshotIsOneState ==
    (locks.op = "serialize" /\ locks.result = "Ok") =>
        SnapshotValue \in locks.history

\* The thread can go on, or the writer whose turn it waits for can.
CanProceed ==
    \/ locks.op = "serialize" /\ CanRead(FieldOrder[locks.field])
    \/ locks.op = "eq" /\ locks.held = "" /\ CanRead(FieldOrder[locks.field])
    \/ locks.op = "eq" /\ locks.held # "" /\ (locks.shared => CanRead(locks.held))
    \/ locks.writer.state = "waiting" /\ locks.held # locks.writer.map

\* C39: a comparison or a serialisation of AccountPositions that has not
\* returned yet can always go on: no deadlock, also between clones that
\* share their maps while a task waits for a write lock.
C39_CompareAndSerializeComplete ==
    (locks.op \in {"serialize", "eq"} /\ locks.result = "None") => CanProceed

\* ------------------------------------------- build_new_perpetual_position
\* f64 values of the computation as exact fractions num/den with den > 0 in
\* lowest terms; a division by zero gives NaN.
RECURSIVE Gcd(_, _)
Gcd(a, b) == IF b = 0 THEN a ELSE Gcd(b, a % b)

Abs(a) == IF a < 0 THEN 0 - a ELSE a

NaN == [num |-> 0, den |-> 0]

Rat(num, den) ==
    IF den = 0 THEN NaN
    ELSE LET g == Gcd(Abs(num), Abs(den))
             sign == IF den < 0 THEN 0 - 1 ELSE 1
         IN [num |-> sign * (num \div g), den |-> sign * (den \div g)]

RatMul(a, b) == IF a = NaN \/ b = NaN THEN NaN ELSE Rat(a.num * b.num, a.den * b.den)
RatDiv(a, b) == IF a = NaN \/ b = NaN THEN NaN ELSE Rat(a.num * b.den, a.den * b.num)
RatAdd(a, b) ==
    IF a = NaN \/ b = NaN THEN NaN ELSE Rat(a.num * b.den + b.num * a.den, a.den * b.den)
RatSub(a, b) ==
    IF a = NaN \/ b = NaN THEN NaN ELSE Rat(a.num * b.den - b.num * a.den, a.den * b.den)

\* The client trades a position is opened from and the account leverage.
BuildTrades ==
    {[instrument |-> i, side |-> side, price |-> Rat(price, 1),
      quantity |-> Rat(quantity, 1), fees |-> Rat(0, 1), timestamp |-> 0] :
        i \in {x \in PositionInstruments : x.kind = "Perpetual"},
        side \in Sides, price \in 1..MaxAmount, quantity \in 1..MaxAmount}

BuildConfigs ==
    {[account_leverage_rate |-> Rat(leverage, 1),
      position_direction_mode |-> "NetMode",
      position_margin_mode |-> "Cross"] : leverage \in Leverages}

\* The liquidation price with the sign of the Buy arm on both sides.
LiquidationPriceBuyOnly(trade, initial_margin) ==
    RatMul(trade.price,
           RatSub(Rat(1, 1),
                  RatDiv(initial_margin, RatMul(trade.quantity, trade.price))))

\* The liquidation price of a new position.
LiquidationPrice(trade, initial_margin) ==
    IF trade.side = "Buy"
    THEN RatMul(trade.price,
                RatSub(Rat(1, 1),
                       RatDiv(initial_margin, RatMul(trade.quantity, trade.price))))
    ELSE RatMul(trade.price,
                RatAdd(Rat(1, 1),
                       RatDiv(initial_margin, RatMul(trade.quantity, trade.price))))

\* AccountPositions::build_new_perpetual_position; both builders are given
\* every field, so build() succeeds.
BuildNewPerpetualPosition(config, trade, exchange_ts) ==
    LET initial_margin ==
            RatDiv(RatMul(trade.price, trade.quantity), config.account_leverage_rate)
        position_meta ==
            [enter_ts |-> exchange_ts, update_ts |-> exchange_ts,
             exit_balance |-> [token |-> trade.instrument.base,
                               current_price |-> trade.price,
                               total |-> trade.quantity,
                               available |-> trade.quantity],
             exchange |-> "SandBox",
             instrument |-> trade.instrument,
             side |-> trade.side,
             current_size |-> trade.quantity,
             current_fees_total |-> trade.fees,
             current_avg_price_gross |-> trade.price,
             current_symbol_price |-> trade.price,
             current_avg_price |-> trade.price,
             unrealised_pnl |-> Rat(0, 1),
             realised_pnl |-> Rat(0, 1)]
        pos_config ==
            [pos_margin_mode |-> config.position_margin_mode,
             leverage |-> config.account_leverage_rate,
             position_mode |-> config.position_direction_mode]
    IN [ok |-> TRUE,
        position |-> [kind |-> "Perpetual", meta |-> position_meta,
                      pos_config |-> pos_config,
                      liquidation_price |-> LiquidationPrice(trade, initial_margin),
                      margin |-> initial_margin]]

InitBuild ==
    /\ IdleBalance /\ IdleBuilder /\ IdleExchange /\ IdleReserve
    /\ IdleIds /\ IdleReplay /\ IdleLocks
    /\ IdlePositions

\* One call of build_new_perpetual_position on the AccountPositions.
BuildPositionCall(config, trade, exchange_ts) ==
    /\ posLog' = [call |-> "build", config |-> config, trade |-> trade,
                  exchange_ts |-> exchange_ts,
                  result |-> BuildNewPerpetualPosition(config, trade, exchange_ts),
                  before |-> account_positions]
    /\ UNCHANGED account_positions
    /\ UNCHANGED <<balVars, bldVars, exVars, resVars, idVars, rpVars, lkVars>>

NextBuild ==
    \E config \in BuildConfigs, trade \in BuildTrades, exchange_ts \in Times :
        BuildPositionCall(config, trade, exchange_ts)

SpecBuild == InitBuild /\ [][NextBuild]_vars

\* C33: for a trade (price p, quantity q, side s) under leverage L the new
\* perpetual position has margin p*q/L, size q, side s, average price p,
\* both PnL 0, leverage L, and the liquidation price p*(1 - margin/(q*p))
\* for Buy, p*(1 + margin/(q*p)) for Sell, which is p*(L-1)/L and p*(L+1)/L.
C33_NewPerpetualPosition ==
    posLog.call = "build" =>
      LET t == posLog.trade
          p == t.price.num
          q == t.quantity.num
          L == posLog.config.account_leverage_rate.num
          new == posLog.result.position
          ratio == RatDiv(new.margin, RatMul(t.quantity, t.price))
      IN /\ posLog.result.ok
         /\ new.margin = Rat(p * q, L)
         /\ new.meta.current_size = t.quantity
         /\ new.meta.side = t.side
         /\ new.meta.current_avg_price = t.price
         /\ new.meta.realised_pnl = Rat(0, 1)
         /\ new.meta.unrealised_pnl = Rat(0, 1)
         /\ new.pos_config.leverage = Rat(L, 1)
         /\ t.side = "Buy" =>
               /\ new.liquidation_price = RatMul(t.price, RatSub(Rat(1, 1), ratio))
               /\ new.liquidation_price = Rat(p * (L - 1), L)
         /\ t.side = "Sell" =>
               /\ new.liquidation_price = RatMul(t.price, RatAdd(Rat(1, 1), ratio))
               /\ new.liquidation_price = Rat(p * (L + 1), L)
         /\ account_positions = posLog.before

\* C33 witness: a position built from a Sell trade under a leverage above
\* one, with a margin that is not a whole number.
C33_Witness ==
    /\ posLog.call = "build"
    /\ posLog.trade.side = "Sell"
    /\ posLog.config.account_leverage_rate.num > 1
    /\ posLog.result.position.margin.den > 1
    /\ posLog.result.position.liquidation_price.den > 1

\* ------------------------------------------ claims about one public trade
\* The sizes of the first n fills of a sequence of fill events, summed.
RECURSIVE FilledBefore(_, _)
FilledBefore(fills, n) ==
    IF n = 0 THEN 0 ELSE FilledBefore(fills, n - 1) + fills[n].state.size

\* C34: the k-th fill of a public trade of amount A is on the k-th best
\* order of the side walked, at the price of that order, for the smaller of
\* what remains of the order and what is left of A; the fills sum to A at
\* most; what is left of the trade is dropped: no book gains an order.
C34_TradeFillsAtRestingPrice ==
    LET c == reserve.last
        fills == FillEvents(c.events)
        walked == BookWalked(c.before, c.trade) IN
    c.op = "trade" =>
      /\ Len(fills) <= Len(walked)
      /\ \A k \in DOMAIN fills :
            LET o == walked[Len(walked) - k + 1] IN
            /\ fills[k].state.id = o.state.id
            /\ fills[k].state.price = o.state.price
            /\ fills[k].state.size =
                  Min(RemainingOf(o), c.trade.amount - FilledBefore(fills, k - 1))
      /\ FilledBefore(fills, Len(fills)) <= c.trade.amount
      /\ OpenIds(reserve.account) \subseteq OpenIds(c.before)
      /\ Len(reserve.account.orders.bids) <= Len(c.before.orders.bids)
      /\ Len(reserve.account.orders.asks) <= Len(c.before.orders.asks)

\* C34 witness: a trade filled a partly filled order at a price that is not
\* the trade's, for less than the trade's amount, and the rest of the trade
\* found no order.
C34_Witness ==
    LET c == reserve.last
        fills == FillEvents(c.events) IN
    /\ c.op = "trade"
    /\ Len(fills) = 1
    /\ fills[1].state.price # c.trade.price
    /\ fills[1].state.size < c.trade.amount
    /\ WithId(BookWalked(c.before, c.trade), fills[1].state.id)[1].state.filled_quantity > 0
    /\ BookWalked(reserve.account, c.trade) = <<>>

\* ------------------------------------------------ claims about a flip
\* The map of the side opposite to a position, and the map of its own side.
OppositeMapOf(position) ==
    IF position.meta.side = "Buy" THEN ShortMapOf(position.meta.instrument.kind)
                                  ELSE LongMapOf(position.meta.instrument.kind)

OwnMapOf(position) ==
    IF position.meta.side = "Buy" THEN LongMapOf(position.meta.instrument.kind)
                                  ELSE ShortMapOf(position.meta.instrument.kind)

\* C35: in NetMode, once the residual of a fill against a held position is
\* opened on the new side, the entry of the old side is gone from its map.
C35_FlipClosesOldSide ==
    LET new == posLog.position
        i == new.meta.instrument IN
    (/\ posLog.call = "update"
     /\ posLog.result = "Ok"
     /\ new.position_mode = "NetMode"
     /\ i \in DOMAIN posLog.before[OppositeMapOf(new)]) =>
        /\ i \in DOMAIN account_positions[OwnMapOf(new)]
        /\ i \notin DOMAIN account_positions[OppositeMapOf(new)]

\* ------------------------------------------- claims about Ord of orders
\* C36: a bid and an ask have no order: partial_cmp is None and cmp panics;
\* two orders of one side always compare as Less, Equal or Greater.
C36_CmpAcrossSidesPanics ==
    LET all == AllOrders(reserve.account.orders) IN
    \A m \in DOMAIN all, n \in DOMAIN all :
        /\ all[m].side # all[n].side =>
              /\ OrderPartialCmp(all[m], all[n]) = "None"
              /\ OrderCmp(all[m], all[n]) = "Panic"
        /\ all[m].side = all[n].side =>
              /\ OrderCmp(all[m], all[n]) \in {"Less", "Equal", "Greater"}
              /\ OrderCmp(all[m], all[n]) = OrderPartialCmp(all[m], all[n])

\* C36 witness: the books hold a bid and an ask, and cmp of the two panics
\* either way round.
C36_Witness ==
    LET bids == reserve.account.orders.bids
        asks == reserve.account.orders.asks IN
    /\ bids # <<>>
    /\ asks # <<>>
    /\ OrderCmp(bids[1], asks[1]) = "Panic"
    /\ OrderCmp(asks[1], bids[1]) = "Panic"

\* ------------------------------------------- claims about the end of run
\* run has returned only with every sender dropped, the queue empty, no
\* event in hand, and every event that was sent handled, in sending order.
ReturnedOnlyWhenDrained ==
    LET self == exchange[1] IN
    self.returned =>
        /\ ~senders
        /\ self.event_simulated_rx = <<>>
        /\ self.handling = <<>>
        /\ self.handled = [i \in 1..Len(arrived) |-> i]

\* C37: run returns exactly when every sender of the request channel is
\* dropped and the queue is empty: it does not return while a sender is
\* alive, every event sent before the last sender went is handled before it
\* returns, and once the senders are gone it does return.
C37_RunEndsWhenSendersGone ==
    /\ []ReturnedOnlyWhenDrained
    /\ [](senders => ~exchange[1].returned)
    /\ (~senders) ~> exchange[1].returned

\* C37 witness: run has returned after the senders were dropped with events
\* still in the queue, all of which it handled first.
C37_Witness ==
    /\ exchange[1].returned
    /\ ~senders
    /\ Len(arrived) = MaxEvents
    /\ Len(exchange[1].handled) = MaxEvents

\* ------------------------------------- an AccountPositions holding options
\* The option instruments held, and the four option maps.
OptionInstruments ==
    {OptionInstrument, [base |-> "ETH", quote |-> "USDT", kind |-> "CryptoOption"]}

OptionMaps ==
    {"option_pos_long_call", "option_pos_long_put", "option_pos_short_call",
     "option_pos_short_put"}

\* An AccountPositions as Deserialize builds it from maps of any content:
\* each option map holds any of the option instruments.
DeserializedPositions(held) ==
    [m \in MapNames |->
        IF m \in OptionMaps
        THEN [i \in held[m] |->
                PositionNew("Option", i,
                            IF m \in {"option_pos_long_call", "option_pos_long_put"}
                            THEN "Buy" ELSE "Sell", 1000)]
        ELSE EmptyMap]

InitOptions ==
    /\ IdleBalance /\ IdleBuilder /\ IdleExchange /\ IdleReserve
    /\ IdleIds /\ IdleReplay /\ IdleLocks
    /\ \E held \in [OptionMaps -> SUBSET OptionInstruments] :
          account_positions = DeserializedPositions(held)
    /\ posLog = NoPosCall(0)

NextOptions ==
    \E instrument \in OptionInstruments :
        /\ QueryPositionCall(instrument)
        /\ UNCHANGED <<balVars, bldVars, exVars, resVars, idVars, rpVars, lkVars>>

SpecOptions == InitOptions /\ [][NextOptions]_vars

\* C38: for a CryptoOption instrument has_long_position is true iff the
\* instrument is in option_pos_long_call and has_short_position iff it is in
\* option_pos_short_put; a position held in option_pos_long_put or in
\* option_pos_short_call alone is reported by neither.
C38_OptionQueriesReadCallAndPut ==
    LET i == posLog.instrument IN
    (posLog.call = "query" /\ i.kind = "CryptoOption") =>
        /\ posLog.long.result = "Ok"
        /\ posLog.short.result = "Ok"
        /\ posLog.long.value <=> i \in DOMAIN account_positions["option_pos_long_call"]
        /\ posLog.short.value <=> i \in DOMAIN account_positions["option_pos_short_put"]
        /\ (/\ i \notin DOMAIN account_positions["option_pos_long_call"]
            /\ i \notin DOMAIN account_positions["option_pos_short_put"]) =>
              (~posLog.long.value /\ ~posLog.short.value)
        /\ account_positions = posLog.before

\* C38 witness: the instrument asked about is held in option_pos_long_put
\* and in option_pos_short_call only, and both queries said no.
C38_Witness ==
    LET i == posLog.instrument IN
    /\ posLog.call = "query"
    /\ i.kind = "CryptoOption"
    /\ i \in DOMAIN account_positions["option_pos_long_put"]
    /\ i \in DOMAIN account_positions["option_pos_short_call"]
    /\ i \notin DOMAIN account_positions["option_pos_long_call"]
    /\ i \notin DOMAIN account_positions["option_pos_short_put"]
    /\ ~posLog.long.value
    /\ ~posLog.short.value

\* ------------------------------------------------- parse_base_and_quote
\* A &str is the sequence of its characters.
MaxLen == 5
Alphabet == {"C", "D", "F", "S", "T", "U"}

\* The list with FDUSD tried first.
QuoteAssetsFdusdFirst ==
    <<<<"F", "D", "U", "S", "D">>, <<"U", "S", "D", "T">>, <<"U", "S", "D", "C">>,
      <<"U", "S", "D">>, <<"U", "S", "T">>, <<"D", "A", "I">>>>

\* quote_assets, in the order of the array.
QuoteAssets ==
    <<<<"U", "S", "D", "T">>, <<"U", "S", "D", "C">>, <<"U", "S", "D">>,
      <<"U", "S", "T">>, <<"D", "A", "I">>, <<"F", "D", "U", "S", "D">>>>

\* str::ends_with
EndsWith(s, suffix) ==
    /\ Len(suffix) <= Len(s)
    /\ SubSeq(s, Len(s) - Len(suffix) + 1, Len(s)) = suffix

\* The for loop from entry n of quote_assets on, and the fall-through.
RECURSIVE ParseFrom(_, _)
ParseFrom(basequote, n) ==
    IF n > Len(QuoteAssets)
    THEN [base |-> basequote, quote |-> <<>>]
    ELSE IF EndsWith(basequote, QuoteAssets[n])
    THEN [base |-> SubSeq(basequote, 1, Len(basequote) - Len(QuoteAssets[n])),
          quote |-> QuoteAssets[n]]
    ELSE ParseFrom(basequote, n + 1)

ParseBaseAndQuote(basequote) == ParseFrom(basequote, 1)

\* The basequote strings parsed: every string over the alphabet up to MaxLen
\* characters, and a few bases followed by each listed quote.
ParseInputs ==
    UNION {[1..n -> Alphabet] : n \in 0..MaxLen}
        \cup {base \o QuoteAssets[n] :
                 base \in {<<>>, <<"B", "T", "C">>, <<"F", "D">>, <<"D">>},
                 n \in DOMAIN QuoteAssets}

NoParse == [base |-> <<"?">>, quote |-> <<"?">>]

InitParse ==
    /\ IdleBalance /\ IdleBuilder /\ IdleExchange /\ IdlePositions
    /\ IdleReserve /\ IdleIds /\ IdleLocks
    /\ \E basequote \in ParseInputs :
          replay = [mode |-> "parse", basequote |-> basequote, result |-> NoParse]

\* One call of parse_base_and_quote on the basequote of a trade.
ParseCall ==
    /\ replay.mode = "parse"
    /\ replay.result = NoParse
    /\ replay' = [replay EXCEPT !.result = ParseBaseAndQuote(replay.basequote)]
    /\ UNCHANGED <<balVars, bldVars, exVars, posVars, resVars, idVars, lkVars>>

NextParse == ParseCall

SpecParse == InitParse /\ [][NextParse]_vars

\* The entries of quote_assets that are a suffix of the input.
SuffixEntries(basequote) ==
    {n \in DOMAIN QuoteAssets : EndsWith(basequote, QuoteAssets[n])}

ListedFdusd == <<"F", "D", "U", "S", "D">>
ListedUsd == <<"U", "S", "D">>

\* C40: the split is on the first listed quote that is a suffix of the
\* input, base followed by quote is the input, an input with no listed
\* suffix comes back whole with an empty quote, and an input ending in FDUSD
\* gets quote USD and a base ending in FD: FDUSD is never the quote.
C40_ParseSplitsOnFirstSuffix ==
    LET in == replay.basequote
        out == replay.result IN
    (replay.mode = "parse" /\ out # NoParse) =>
        /\ out.base \o out.quote = in
        /\ SuffixEntries(in) = {} => (out.base = in /\ out.quote = <<>>)
        /\ SuffixEntries(in) # {} =>
              \E n \in SuffixEntries(in) :
                 /\ out.quote = QuoteAssets[n]
                 /\ \A m \in SuffixEntries(in) : n <= m
        /\ EndsWith(in, ListedFdusd) =>
              /\ out.quote = ListedUsd
              /\ EndsWith(out.base, <<"F", "D">>)
        /\ out.quote # ListedFdusd

\* C40 witness: an input ending in FDUSD was parsed.
C40_Witness ==
    /\ replay.mode = "parse"
    /\ replay.result # NoParse
    /\ EndsWith(replay.basequote, ListedFdusd)
    /\ Len(replay.basequote) > Len(ListedFdusd)
    /\ replay.result.quote = ListedUsd

====
